---- MODULE Spec2Model ----
(***************************************************************************)
(* Model of the market-data cache and fetch layer of ai-stock-advisor:     *)
(*   backend/app/services/market_data.py   MarketDataService               *)
(*   backend/app/api/v1/endpoints/stock.py, portfolio.py   its callers     *)
(*                                                                         *)
(* Prices are integers in units of 0.1 (230.0 is 2300).  A Python dict is  *)
(* a function whose DOMAIN is its key set, so "key absent" and "key        *)
(* present with value None" stay distinct.  None is the integer Null.      *)
(***************************************************************************)
EXTENDS Integers, Sequences, FiniteSets, TLC

\* ---------------------------------------------------------------- bounds
MaxTime == 65
NumProcs == 2
MaxRequests == 3
MaxBatch == 6
MaxBars == 12
MaxStocks == 11
MaxThreads == 2
MaxWait == 21
MaxHistory == 300

\* ------------------------------------------------------- program constants
TTL == 60
SemaphoreLimit == 5
MaxRetries == 3
NewsKeep == 5
MockDefaultBase == 1000
FetchTimeout == 15
RefreshLimit == 10
DailyLimit == 3
AvRequestTimeout == 5
TavilyTimeout == 10

\* ------------------------------------------------------------- vocabulary
Null == -1
Tickers == {"AAPL", "XYZ"}
Procs == 1..NumProcs
Delays == {20, 45}
EmptyDict == [k \in {} |-> Null]

\* dict.get(key, default)
Get(d, k, default) == IF k \in DOMAIN d THEN d[k] ELSE default

\* Python "a or b" on numbers: a when a is truthy (neither None nor 0)
PyOr(a, b) == IF a # Null /\ a # 0 THEN a ELSE b

\* Python truthiness of a dict-or-None: None is modelled by EmptyDict
Truthy(d) == DOMAIN d # {}

\* ------------------------------------------------------ persisted rows
NoCache ==
  [exists |-> FALSE, current_price |-> Null, change_percent |-> Null,
   rsi_14 |-> Null, ma_50 |-> Null, market_status |-> "CLOSED",
   last_updated |-> Null]

NoStock == [exists |-> FALSE, name |-> <<>>, pe_ratio |-> Null]

\* ------------------------------------------ what the remote sources answer
\* yfinance Ticker.info answers
InfoFull ==
  [currentPrice |-> 2300, regularMarketChangePercent |-> 1,
   trailingPE |-> 30, fiftyDayAverage |-> 2200]
InfoBare == [regularMarketPrice |-> 2300]
InfoNullPrice == [currentPrice |-> Null]
InfoNullChange == [currentPrice |-> 2300, regularMarketChangePercent |-> Null]
InfoNoPrice == [trailingPE |-> 30]

\* yfinance Ticker.history answers: number of bars, last close, and the
\* value the indicator formulas give on it
HistEmpty == [n |-> 0, close |-> Null, rsi |-> Null]
HistShort == [n |-> 10, close |-> 2300, rsi |-> Null]
HistLong == [n |-> 30, close |-> 2300, rsi |-> 55]

\* yfinance Ticker.news answers: News1Edited is News1 with its title changed,
\* News2 the same link published under another uuid, News3 another article
News1 == [uuid |-> 1, link |-> 1, title |-> 1]
News1Edited == [uuid |-> 1, link |-> 1, title |-> 2]
News2 == [uuid |-> 2, link |-> 1, title |-> 1]
News3 == [uuid |-> 3, link |-> 3, title |-> 3]

\* one attempt of the retry loop: exc tells which request raised: "none";
\* "429" or "other" for tick.info; "history" for tick.history after tick.info
\* answered; "news" for tick.news after both answered
YfAnswer(i, h, n) == [exc |-> "none", info |-> i, hist |-> h, news |-> n]
YfBlank == YfAnswer(EmptyDict, HistEmpty, <<>>)
YfGood == YfAnswer(InfoFull, HistLong, <<News1>>)
YfHistRaises == [exc |-> "history", info |-> InfoFull, hist |-> HistEmpty, news |-> <<>>]
YfNewsRaises == [exc |-> "news", info |-> InfoFull, hist |-> HistLong, news |-> <<>>]
YfOk ==
  {YfGood,
   YfAnswer(InfoFull, HistEmpty, <<>>),
   YfAnswer(InfoBare, HistEmpty, <<>>),
   YfAnswer(InfoBare, HistLong, <<>>),
   YfAnswer(InfoNoPrice, HistLong, <<>>),
   YfAnswer(EmptyDict, HistShort, <<>>),
   YfAnswer(InfoNullPrice, HistEmpty, <<>>),
   YfAnswer(InfoNullChange, HistEmpty, <<>>),
   YfAnswer(InfoNoPrice, HistEmpty, <<News1>>),
   YfAnswer(InfoBare, HistEmpty, <<News1Edited, News2, News3>>),
   YfNewsRaises}
YfRaise429 == [exc |-> "429", info |-> EmptyDict, hist |-> HistEmpty, news |-> <<>>]
YfRaiseOther == [exc |-> "other", info |-> EmptyDict, hist |-> HistEmpty, news |-> <<>>]
YfFails == {YfBlank, YfRaise429, YfRaiseOther, YfHistRaises}
YfLast == YfFails \cup {YfGood}

\* the attempts a run of _fetch_yfinance meets, in order
YfRuns ==
  {<<a>> : a \in YfOk \cup YfFails}
    \cup {<<f, a>> : f \in YfFails, a \in YfLast}
    \cup {<<f, g, a>> : f \in YfFails, g \in YfFails, a \in YfLast}

\* a yfinance contact: the attempts, and whether wait_for's 15 s elapse first
YfInputs ==
  {[run |-> r, timeout |-> FALSE] : r \in YfRuns}
    \cup {[run |-> <<YfGood>>, timeout |-> TRUE]}

\* Alpha Vantage answers: exc is an exception of requests.get/.json()/float();
\* quote is the Global Quote price, overview the PERatio of an OVERVIEW answer
\* (Null: the answer lacks that part), note the rate-limit "Note" key; with exc
\* and a quote, the quote request answered and the overview request raised
AvRaws ==
  {[exc |-> TRUE, quote |-> q, overview |-> Null, note |-> FALSE] : q \in {Null, 2310}}
    \cup {[exc |-> FALSE, quote |-> q, overview |-> o, note |-> FALSE] :
            q \in {Null, 2310}, o \in {Null, 0, 25}}
    \cup {[exc |-> FALSE, quote |-> Null, overview |-> Null, note |-> TRUE]}

Prefs == {"ALPHA_VANTAGE", "YFINANCE", "AKSHARE"}

\* ------------------------------------------------------ _fetch_yfinance
\* the result dict one attempt builds ({} when nothing was obtained)
YfFromInfo(info, ticker) ==
  IF Truthy(info) /\ ("currentPrice" \in DOMAIN info \/ "regularMarketPrice" \in DOMAIN info)
  THEN [price |-> PyOr(Get(info, "currentPrice", Null), Get(info, "regularMarketPrice", Null)),
        changePercent |-> Get(info, "regularMarketChangePercent", 0),
        shortName |-> Get(info, "shortName", <<ticker>>),
        fundamental |-> [peRatio |-> Get(info, "trailingPE", Null)],
        ma50 |-> Get(info, "fiftyDayAverage", Null)]
  ELSE EmptyDict

YfFromHist(result, hist, ticker) ==
  IF hist.n > 0
  THEN LET base == IF ~Truthy(result)
                   THEN [price |-> hist.close, changePercent |-> 0, shortName |-> <<ticker>>]
                   ELSE result
       IN IF hist.n >= 15 THEN ("rsi" :> hist.rsi) @@ base ELSE base
  ELSE result

YfWithNews(result, news) ==
  IF news # <<>>
  THEN ("news" :> SubSeq(news, 1, IF Len(news) < NewsKeep THEN Len(news) ELSE NewsKeep)) @@ result
  ELSE result

YfAttempt(raw, ticker) ==
  YfWithNews(YfFromHist(YfFromInfo(raw.info, ticker), raw.hist, ticker), raw.news)

\* the retry loop from attempt k on; raised: "All yfinance methods failed"
RECURSIVE FetchYfFrom(_, _, _)
FetchYfFrom(run, ticker, k) ==
  IF k > MaxRetries \/ k > Len(run)
  THEN [raised |-> TRUE, data |-> EmptyDict, attempts |-> k - 1]
  ELSE IF run[k].exc \notin {"none", "news"}
       THEN FetchYfFrom(run, ticker, k + 1)
       ELSE IF Truthy(YfAttempt(run[k], ticker))
            THEN [raised |-> FALSE, data |-> YfAttempt(run[k], ticker), attempts |-> k]
            ELSE FetchYfFrom(run, ticker, k + 1)

FetchYfinance(run, ticker) == FetchYfFrom(run, ticker, 1)

\* --------------------------------------------------- _fetch_alpha_vantage
FetchAlphaVantage(raw, ticker) ==
  IF raw.exc THEN [raised |-> TRUE, data |-> EmptyDict]
  ELSE LET withQuote == IF raw.quote # Null
                        THEN [price |-> raw.quote, changePercent |-> 0, name |-> <<ticker>>]
                        ELSE EmptyDict
           result == IF raw.overview # Null
                     THEN ("fundamental" :> [peRatio |-> raw.overview]) @@ withQuote
                     ELSE withQuote
       IN IF ~Truthy(result)
          THEN [raised |-> raw.note, data |-> EmptyDict]
          ELSE [raised |-> FALSE, data |-> result]

\* ------------------------------------------- the two tries and their order
\* each try yields the data (EmptyDict for None) and a log of the providers
\* contacted, each with what it gave; partial: the source answered a quote
\* request with a price while another of its requests raised
Contact(src, d, partial) == [src |-> src, data |-> d, partial |-> partial]

InfoPriced(info) ==
  PyOr(Get(info, "currentPrice", Null), Get(info, "regularMarketPrice", Null)) # Null

YfPartial(run, attempts) ==
  \E k \in 1..attempts : run[k].exc \in {"history", "news"} /\ InfoPriced(run[k].info)

TryAlphaVantage(key, raw, ticker) ==
  IF key
  THEN LET av == FetchAlphaVantage(raw, ticker)
           d == IF ~av.raised /\ Truthy(av.data) /\ "price" \in DOMAIN av.data
                THEN av.data ELSE EmptyDict
       IN [data |-> d, contacts |-> <<Contact("ALPHA_VANTAGE", d, raw.exc /\ raw.quote # Null)>>]
  ELSE [data |-> EmptyDict, contacts |-> <<>>]

TryYfinance(inp, ticker) ==
  LET yf == FetchYfinance(inp.run, ticker)
      d == IF inp.timeout \/ yf.raised THEN EmptyDict ELSE yf.data
  IN [data |-> d, contacts |-> <<Contact("YFINANCE", d, YfPartial(inp.run, yf.attempts))>>]

FetchData_Swapped(pref, key, avRaw, yfInp, ticker) ==
  LET av == TryAlphaVantage(key, avRaw, ticker)
      yf == TryYfinance(yfInp, ticker)
  IN IF pref # "ALPHA_VANTAGE"
     THEN IF ~Truthy(av.data)
          THEN [data |-> yf.data, contacts |-> av.contacts \o yf.contacts]
          ELSE av
     ELSE IF ~Truthy(yf.data)
          THEN [data |-> av.data, contacts |-> yf.contacts \o av.contacts]
          ELSE yf

FetchData(pref, key, avRaw, yfInp, ticker) ==
  LET av == TryAlphaVantage(key, avRaw, ticker)
      yf == TryYfinance(yfInp, ticker)
  IN IF pref = "ALPHA_VANTAGE"
     THEN IF ~Truthy(av.data)
          THEN [data |-> yf.data, contacts |-> av.contacts \o yf.contacts]
          ELSE av
     ELSE IF ~Truthy(yf.data)
          THEN [data |-> av.data, contacts |-> yf.contacts \o av.contacts]
          ELSE yf

\* the answers concurrent requests are given: yfinance full, bare or failing,
\* Alpha Vantage failing
ConcYfInputs ==
  {[run |-> <<a>>, timeout |-> FALSE] :
     a \in {YfGood, YfAnswer(InfoBare, HistEmpty, <<>>), YfRaiseOther}}
ConcAvRaws == {[exc |-> TRUE, quote |-> Null, overview |-> Null, note |-> FALSE]}
ConcPref == "YFINANCE"
ConcDelays == {65}

\* every outcome the two sources can give a call, their answers ranging
\* over AvRaws and YfInputs
FetchOutcomes ==
  [pref \in Prefs, key \in BOOLEAN, ticker \in Tickers |->
     {FetchData(pref, key, avRaw, yfInp, ticker) : avRaw \in AvRaws, yfInp \in YfInputs}]

\* ------------------------------------------------------------------ state
VARIABLES
  now,      \* datetime.utcnow(), in seconds
  avKey,    \* settings.ALPHA_VANTAGE_API_KEY is set
  dbStock,  \* committed rows of table stocks, by ticker
  dbCache,  \* committed rows of table market_data_cache, by ticker
  dbNews,   \* committed rows of table stock_news
  sess,     \* per caller: the AsyncSession's MarketDataCache objects
  pc,       \* per caller: position inside get_real_time_data
  loc,      \* per caller: locals of the running get_real_time_data
  ret,      \* outcome of the call that completed last
  watch,    \* the ticker this run's calls are about
  reqs,     \* requests begun so far by the concurrent callers
  step,     \* name of the operation that ran last
  instances, \* ProviderFactory._instances: source name -> provider object
  built,    \* the provider objects constructed so far, in order
  got,      \* the last ProviderFactory.get_provider call and what it returned
  bg,       \* the last _background_fetch run and the source it chose
  holders,  \* table portfolios: per ticker, the number of users holding it
  phase,    \* refresh_all_stocks: "idle", "running" (inside gather) or "done"
  tickers,  \* refresh_all_stocks: the distinct tickers it selected
  task,     \* per ticker: its refresh_one task is "none", "queued", "running", "done"
  sem,      \* the permits left in asyncio.Semaphore(5)
  calls,    \* per ticker: the forced get_real_time_data calls made, in order
  results,  \* per ticker: what refresh_one returned (the ticker, or Null for None)
  resp,     \* the response dict of refresh_all_stocks
  job,      \* auto_refresh_job: its position in the loop and the rows it orders
  pcall,    \* the last provider method call: what its requests did, what it gave
  fcall,    \* the last fetch examined on its own: its inputs and what it did
  pfRows,   \* table portfolios of one user: the tickers stored
  pfOp,     \* the last portfolio endpoint call and the ticker it addressed
  ind,      \* the last TechnicalIndicators call: its input and its result
  rr,       \* the last run of calculate_all's risk/reward section
  proxy,    \* os.environ's proxy settings and the threads of AkShareProvider._run_sync
  quota     \* analyze_stock: the day's reports of one user and the requests in progress

marketVars == <<now, avKey, dbStock, dbCache, dbNews, sess, pc, loc, ret, watch, reqs, step>>
routeVars == <<instances, built, got, bg>>
batchVars == <<holders, phase, tickers, task, sem, calls, results, resp, job>>
providerVars == <<pcall, fcall>>
portfolioVars == <<pfRows, pfOp>>
indicatorVars == <<ind, rr>>
serviceVars == <<proxy, quota>>
vars == <<marketVars, routeVars, batchVars, providerVars, portfolioVars, indicatorVars, serviceVars>>
dbVars == <<dbStock, dbCache, dbNews>>

\* a session: cur are the objects as the code sees them, orig the column
\* values they were loaded with (exists = FALSE: not in the identity map)
FreshSession ==
  [cur |-> [t \in Tickers |-> NoCache], orig |-> [t \in Tickers |-> NoCache],
   failed |-> FALSE]

NoRet ==
  [op |-> "none", ticker |-> "", pref |-> "", kind |-> "none", err |-> "",
   hit |-> FALSE, snap |-> NoCache, before |-> NoCache, contacts |-> <<>>,
   data |-> EmptyDict, caller |-> 0, at |-> 0]

NoLoc ==
  [ticker |-> "", pref |-> "", now |-> 0, cache |-> NoCache,
   fetched |-> [data |-> EmptyDict, contacts |-> <<>>],
   stockOrig |-> NoStock, stock |-> NoStock, readStock |-> NoStock]

InitMarket ==
  /\ now = 0
  /\ avKey \in BOOLEAN
  /\ dbStock = [t \in Tickers |-> NoStock]
  /\ dbCache = [t \in Tickers |-> NoCache]
  /\ dbNews = {}
  /\ sess = [p \in Procs |-> FreshSession]
  /\ pc = [p \in Procs |-> "idle"]
  /\ loc = [p \in Procs |-> NoLoc]
  /\ ret = NoRet
  /\ watch \in Tickers
  /\ reqs = 0
  /\ step = "init"

\* ProviderFactory._instances = {} (factory.py 13), nothing called yet
NoInst == [cls |-> "", id |-> 0]
NoGot ==
  [op |-> "none", ticker |-> <<>>, pref |-> <<>>, ashare |-> FALSE,
   source |-> <<>>, inst |-> NoInst, made |-> FALSE]
NoBg == [op |-> "none", ticker |-> <<>>, source |-> <<>>, err |-> ""]

InitRoute ==
  /\ instances = [k \in {} |-> NoInst]
  /\ built = <<>>
  /\ got = NoGot
  /\ bg = NoBg

\* refresh_all_stocks not yet called; the portfolio tickers are numbered
BatchTickers == 1..MaxBatch
InitTasks ==
  /\ phase = "idle"
  /\ tickers = {}
  /\ task = [t \in BatchTickers |-> "none"]
  /\ sem = 0
  /\ calls = [t \in BatchTickers |-> <<>>]
  /\ results = [t \in BatchTickers |-> Null]
  /\ resp = EmptyDict
  /\ job = [op |-> "none"]
InitBatch == InitTasks /\ holders = [t \in BatchTickers |-> 0]

\* no provider method, portfolio endpoint or indicator function called yet
NoCall == [op |-> "none"]
InitServices ==
  /\ proxy = NoCall
  /\ quota = NoCall

InitOthers ==
  /\ InitServices
  /\ pcall = NoCall
  /\ fcall = NoCall
  /\ pfRows = {}
  /\ pfOp = NoCall
  /\ ind = NoCall
  /\ rr = NoCall

Init ==
  /\ InitRoute
  /\ InitBatch
  /\ InitOthers
  /\ InitMarket

\* ------------------------------------------------ the cache check (16-23)
\* select(MarketDataCache): the session's object when it holds one, else the row
SelectCache(s, rows, t) == IF s.cur[t].exists THEN s.cur[t] ELSE rows[t]

\* the session after that select: a row read for the first time is loaded
LoadCache(s, rows, t) ==
  IF s.cur[t].exists \/ ~rows[t].exists THEN s
  ELSE [s EXCEPT !.cur[t] = rows[t], !.orig[t] = rows[t]]

IsFresh_Reversed(cache, tnow) == cache.exists /\ (tnow - cache.last_updated) > TTL

IsFresh_Wide(cache, tnow) == cache.exists /\ (tnow - cache.last_updated) < TTL + TTL \div 2

IsFresh(cache, tnow) == cache.exists /\ (tnow - cache.last_updated) < TTL

\* --------------------------------------------- simulation fallback (58-85)
FluctJitter == {-5, 0, 5}       \* random.uniform(-0.0005, 0.0005), in 1/10000
MockJitter == {-10, 0, 10}      \* random.uniform(-0.01, 0.01), in 1/1000
MockChange == {-2, 0, 2}        \* random.uniform(-2.0, 2.0)
NoJitter == [fluct |-> 0, mock |-> 0, cp |-> 0]
\* the random draws a call makes: one when it perturbs a row, two for a mock
Jitters(hasCache) ==
  IF hasCache THEN {[NoJitter EXCEPT !.fluct = f] : f \in FluctJitter}
  ELSE {[NoJitter EXCEPT !.mock = m, !.cp = c] : m \in MockJitter, c \in MockChange}

MockBases == [AAPL |-> 2300, NVDA |-> 1300, MSFT |-> 4100, GOOGL |-> 1900, TSLA |-> 2500]
GetMockBase(t) == Get(MockBases, t, MockDefaultBase)

\* x * num / den, rounded to the nearest unit
Scale(x, num, den) == (x * num + den \div 2) \div den

Perturb(cache, jit, tnow) ==
  [cache EXCEPT !.current_price = Scale(@, 10000 + jit.fluct, 10000),
                !.last_updated = tnow]

MockSnapshot_Unmarked(t, jit) ==
  [shortName |-> <<t>>,
   currentPrice |-> Scale(GetMockBase(t), 1000 + jit.mock, 1000),
   regularMarketPrice |-> GetMockBase(t),
   regularMarketChangePercent |-> jit.cp,
   regularMarketOpen |-> Scale(GetMockBase(t), 99, 100),
   regularMarketDayHigh |-> Scale(GetMockBase(t), 102, 100),
   regularMarketDayLow |-> Scale(GetMockBase(t), 98, 100),
   volume |-> 5000000]

MockSnapshot(t, jit) ==
  [shortName |-> <<t, " (SIMULATED)">>,
   currentPrice |-> Scale(GetMockBase(t), 1000 + jit.mock, 1000),
   regularMarketPrice |-> GetMockBase(t),
   regularMarketChangePercent |-> jit.cp,
   regularMarketOpen |-> Scale(GetMockBase(t), 99, 100),
   regularMarketDayHigh |-> Scale(GetMockBase(t), 102, 100),
   regularMarketDayLow |-> Scale(GetMockBase(t), 98, 100),
   volume |-> 5000000]

\* ------------------------------------------------- update/create (87-148)
StockName(data, t) == Get(data, "shortName", Get(data, "name", <<t>>))

NewStock(data, t) == [exists |-> TRUE, name |-> StockName(data, t), pe_ratio |-> Null]

MergeStock(stock, data) ==
  IF stock.exists /\ "fundamental" \in DOMAIN data
  THEN [stock EXCEPT !.pe_ratio = Get(data["fundamental"], "peRatio", @)]
  ELSE stock

PriceOf(data) ==
  Get(data, "currentPrice", Get(data, "price", Get(data, "regularMarketPrice", 0)))
ChangeOf(data) ==
  Get(data, "changePercent", Get(data, "regularMarketChangePercent", 0))

\* float(x) raises TypeError exactly on None
FloatRaises(x) == x = Null
MergeRaises(data) == FloatRaises(PriceOf(data)) \/ FloatRaises(ChangeOf(data))

MergeCache(cache, data, tnow) ==
  [exists |-> TRUE,
   current_price |-> PriceOf(data),
   change_percent |-> ChangeOf(data),
   rsi_14 |-> Get(data, "rsi", cache.rsi_14),
   ma_50 |-> Get(data, "ma50", cache.ma_50),
   market_status |-> "OPEN",
   last_updated |-> tnow]

\* ----------------------------------------------------- news (150-166)
\* INSERT ... ON CONFLICT DO NOTHING: the row is skipped when it collides
\* with the primary key (id) or with uq_stock_news_ticker_link
NewsRow(n, t) == [id |-> n.uuid, ticker |-> t, link |-> n.link, title |-> n.title]

InsertNews_KeyOnly(rows, n, t) ==
  IF \E r \in rows : r.id = n.uuid
  THEN rows
  ELSE rows \cup {NewsRow(n, t)}

InsertNews(rows, n, t) ==
  IF \E r \in rows : r.id = n.uuid \/ (r.ticker = t /\ r.link = n.link)
  THEN rows
  ELSE rows \cup {NewsRow(n, t)}

RECURSIVE InsertAllNews(_, _, _)
InsertAllNews(rows, items, t) ==
  IF items = <<>> THEN rows
  ELSE InsertAllNews(InsertNews(rows, Head(items), t), Tail(items), t)

NewsOf(data) == Get(data, "news", <<>>)

\* ------------------------------------------- commit and refresh (168-169)
\* flush of one object: INSERT when it was added, else UPDATE of the
\* attributes whose value differs from the loaded one
FlushRow(row, orig, cur) ==
  IF ~cur.exists THEN row
  ELSE IF ~orig.exists THEN cur
  ELSE [f \in DOMAIN cur |-> IF cur[f] # orig[f] THEN cur[f] ELSE row[f]]

\* an added object whose primary key is already committed: IntegrityError
FlushRaises(rows, s) ==
  \E t \in Tickers : s.cur[t].exists /\ ~s.orig[t].exists /\ rows[t].exists

FlushCache(rows, s) == [t \in Tickers |-> FlushRow(rows[t], s.orig[t], s.cur[t])]

\* the session after a commit: its objects are clean
Committed(s) == [s EXCEPT !.orig = s.cur]

\* db.refresh(obj): reload one object from its row
Refreshed(s, rows, t) == [s EXCEPT !.cur[t] = rows[t], !.orig[t] = rows[t]]

\* --------------------------------------------- get_real_time_data (15-170)
\* the call's outcome, as the caller sees it
Outcome(p, t, pref, kind, err, hit, snap, before, f) ==
  [op |-> "get", ticker |-> t, pref |-> pref, kind |-> kind, err |-> err,
   hit |-> hit, snap |-> snap, before |-> before, contacts |-> f.contacts,
   data |-> f.data, caller |-> p, at |-> now]

NoFetch == [data |-> EmptyDict, contacts |-> <<>>]

\* lines 16-23: a fresh cached row is returned as it is
CacheHit(p, t, pref) ==
  LET cache == SelectCache(sess[p], dbCache, t)
  IN /\ IsFresh(cache, now)
     /\ sess' = [sess EXCEPT ![p] = LoadCache(@, dbCache, t)]
     /\ ret' = Outcome(p, t, pref, "cache", "", TRUE, cache, cache, NoFetch)
     /\ UNCHANGED dbVars

\* lines 58-85: no provider gave data
Fallback(p, t, pref, f) ==
  LET cache == SelectCache(sess[p], dbCache, t)
      s1 == LoadCache(sess[p], dbCache, t)
  IN /\ ~Truthy(f.data)
     /\ \E jit \in Jitters(cache.exists) :
        IF cache.exists
        THEN /\ sess' = [sess EXCEPT ![p] = [s1 EXCEPT !.cur[t] = Perturb(cache, jit, now)]]
             /\ ret' = Outcome(p, t, pref, "cache", "", FALSE, Perturb(cache, jit, now), cache, f)
        ELSE /\ sess' = [sess EXCEPT ![p] = s1]
             /\ ret' = Outcome(p, t, pref, "mock", "", FALSE, MockSnapshot(t, jit), cache, f)
     /\ UNCHANGED dbVars

\* lines 87-170: the fetched data is merged and committed
Store(p, t, pref, f) ==
  LET cache == SelectCache(sess[p], dbCache, t)
      s1 == LoadCache(sess[p], dbCache, t)
      data == f.data
      addStock == ~cache.exists /\ ~dbStock[t].exists
      \* line 97: the commit that follows db.add(stock) flushes the session
      stock1 == IF addStock THEN NewStock(data, t) ELSE dbStock[t]
      cache1 == IF addStock THEN FlushCache(dbCache, s1) ELSE dbCache
      s2 == IF addStock THEN Committed(s1) ELSE s1
      stock2 == MergeStock(stock1, data)
      s3 == [s2 EXCEPT !.cur[t] = MergeCache(cache, data, now)]
      cache2 == FlushCache(cache1, s3)
  IN /\ Truthy(data)
     /\ IF MergeRaises(data)
        THEN /\ dbStock' = [dbStock EXCEPT ![t] = stock1]
             /\ dbCache' = cache1
             /\ dbNews' = dbNews
             /\ sess' = [sess EXCEPT ![p] = [s2 EXCEPT !.failed = TRUE]]
             /\ ret' = Outcome(p, t, pref, "error", "TypeError", FALSE, NoCache, cache, f)
        ELSE /\ dbStock' = [dbStock EXCEPT ![t] = stock2]
             /\ dbCache' = cache2
             /\ dbNews' = InsertAllNews(dbNews, NewsOf(data), t)
             /\ sess' = [sess EXCEPT ![p] = Refreshed(Committed(s3), cache2, t)]
             /\ ret' = Outcome(p, t, pref, "cache", "", FALSE, cache2[t], cache, f)

GetRealTimeData(p, t, pref) ==
  /\ pc[p] = "idle" /\ ~sess[p].failed
  /\ step' = "get"
  /\ \/ CacheHit(p, t, pref)
     \/ /\ ~IsFresh(SelectCache(sess[p], dbCache, t), now)
        /\ \E f \in FetchOutcomes[pref, avKey, t] :
             Fallback(p, t, pref, f) \/ Store(p, t, pref, f)
  /\ UNCHANGED <<now, avKey, pc, loc, watch, reqs>>

\* a caller that passes force_refresh=True (stock.py 104, portfolio.py 324 and
\* 361-366): the signature at line 15 has no such parameter, so the call
\* raises TypeError before the body runs
ForcedCall(p, t, pref) ==
  /\ pc[p] = "idle" /\ ~sess[p].failed
  /\ step' = "forced"
  /\ ret' = [Outcome(p, t, pref, "error", "TypeError", FALSE, NoCache,
                     SelectCache(sess[p], dbCache, t), NoFetch)
               EXCEPT !.op = "forced"]
  /\ UNCHANGED <<now, avKey, dbVars, sess, pc, loc, watch, reqs>>

\* the clock advances
Tick(d) ==
  /\ now + d <= MaxTime
  /\ now' = now + d
  /\ step' = "tick"
  /\ UNCHANGED <<avKey, dbVars, sess, pc, loc, ret, watch, reqs>>

\* the caller's session ends (get_db, database.py 62-68) and a new one opens
NewSession(p) ==
  /\ pc[p] = "idle"
  /\ sess[p] # FreshSession
  /\ sess' = [sess EXCEPT ![p] = FreshSession]
  /\ step' = "session"
  /\ UNCHANGED <<now, avKey, dbVars, pc, loc, ret, watch, reqs>>

\* calls made one after another by one caller
Caller == CHOOSE p \in Procs : \A q \in Procs : p <= q

MarketNext ==
  \/ \E pref \in Prefs : GetRealTimeData(Caller, watch, pref)
  \/ \E pref \in Prefs : ForcedCall(Caller, watch, pref)
  \/ \E d \in Delays : Tick(d)
  \/ NewSession(Caller)

Next == MarketNext /\ UNCHANGED <<routeVars, batchVars, providerVars, portfolioVars, indicatorVars, serviceVars>>

Spec == Init /\ [][Next]_vars

\* ===================================================================
\* Concurrent callers: get_real_time_data split at its awaits.  Each caller
\* is a request with a session of its own (get_db, database.py 62-68); a
\* select reads the committed rows, a commit writes them.
\* ===================================================================
Finish(p, f, kind, err, hit, snap) ==
  /\ ret' = [op |-> "get", ticker |-> loc[p].ticker, pref |-> loc[p].pref,
             kind |-> kind, err |-> err, hit |-> hit, snap |-> snap,
             before |-> loc[p].cache, contacts |-> f.contacts,
             data |-> f.data, caller |-> p, at |-> loc[p].now]
  /\ pc' = [pc EXCEPT ![p] = "idle"]

Raise(p, err) ==
  /\ Finish(p, loc[p].fetched, "error", err, FALSE, NoCache)
  /\ sess' = [sess EXCEPT ![p].failed = TRUE]

\* lines 17-23: await db.execute(select cache), then the TTL check
Begin(p, t, pref) ==
  /\ pc[p] = "idle" /\ sess[p] = FreshSession
  /\ reqs < MaxRequests
  /\ reqs' = reqs + 1
  /\ step' = "begin"
  /\ LET cache == SelectCache(sess[p], dbCache, t)
     IN /\ loc' = [loc EXCEPT ![p] = [NoLoc EXCEPT !.ticker = t, !.pref = pref,
                                                  !.now = now, !.cache = cache]]
        /\ sess' = [sess EXCEPT ![p] = LoadCache(@, dbCache, t)]
        /\ IF IsFresh(cache, now)
           THEN /\ ret' = Outcome(p, t, pref, "cache", "", TRUE, cache, cache, NoFetch)
                /\ pc' = pc
           ELSE /\ ret' = ret
                /\ pc' = [pc EXCEPT ![p] = "fetch"]
  /\ UNCHANGED <<now, avKey, dbVars, watch>>

\* lines 49-85: await the tries; without data, the simulation fallback
Fetch(p, f) ==
  /\ pc[p] = "fetch"
  /\ step' = "fetch"
  /\ LET t == loc[p].ticker
         cache == loc[p].cache
     IN /\ loc' = [loc EXCEPT ![p].fetched = f]
        /\ IF Truthy(f.data)
           THEN /\ pc' = [pc EXCEPT ![p] = IF cache.exists THEN "select_stock" ELSE "ensure_stock"]
                /\ UNCHANGED <<sess, ret>>
           ELSE \E jit \in Jitters(cache.exists) :
                  IF cache.exists
                  THEN /\ sess' = [sess EXCEPT ![p].cur[t] = Perturb(cache, jit, loc[p].now)]
                       /\ Finish(p, f, "cache", "", FALSE, Perturb(cache, jit, loc[p].now))
                  ELSE /\ sess' = sess
                       /\ Finish(p, f, "mock", "", FALSE, MockSnapshot(t, jit))
  /\ UNCHANGED <<now, avKey, dbVars, watch, reqs>>

\* lines 90-96: await db.execute(select stock); db.add(stock) when missing
EnsureStock(p) ==
  /\ pc[p] = "ensure_stock"
  /\ step' = "ensure_stock"
  /\ LET t == loc[p].ticker
     IN IF dbStock[t].exists
        THEN /\ pc' = [pc EXCEPT ![p] = "select_stock"]
             /\ loc' = loc
        ELSE /\ pc' = [pc EXCEPT ![p] = "commit_stock"]
             /\ loc' = [loc EXCEPT ![p].stock = NewStock(loc[p].fetched.data, t)]
  /\ UNCHANGED <<now, avKey, dbVars, sess, ret, watch, reqs>>

\* line 97: await db.commit() of the added Stock
CommitStock(p) ==
  /\ pc[p] = "commit_stock"
  /\ step' = "commit_stock"
  /\ LET t == loc[p].ticker
     IN IF dbStock[t].exists \/ FlushRaises(dbCache, sess[p])
        THEN /\ Raise(p, "IntegrityError")
             /\ UNCHANGED <<dbVars, loc>>
        ELSE /\ dbStock' = [dbStock EXCEPT ![t] = loc[p].stock]
             /\ dbCache' = FlushCache(dbCache, sess[p])
             /\ sess' = [sess EXCEPT ![p] = Committed(@)]
             /\ loc' = [loc EXCEPT ![p].stockOrig = loc[p].stock]
             /\ pc' = [pc EXCEPT ![p] = "select_stock"]
             /\ UNCHANGED <<dbNews, ret>>
  /\ UNCHANGED <<now, avKey, watch, reqs>>

\* lines 99-148: await db.execute(select stock), then the merge into the
\* session's objects; the Stock this session added is its own object
SelectStock(p) ==
  /\ pc[p] = "select_stock"
  /\ step' = "select_stock"
  /\ LET t == loc[p].ticker
         data == loc[p].fetched.data
         stock == IF loc[p].stock.exists THEN loc[p].stock ELSE dbStock[t]
     IN IF MergeRaises(data)
        THEN /\ Raise(p, "TypeError")
             /\ loc' = loc
        ELSE /\ loc' = [loc EXCEPT ![p].stockOrig = stock,
                                   ![p].stock = MergeStock(stock, data),
                                   ![p].readStock = dbStock[t]]
             /\ sess' = [sess EXCEPT ![p].cur[t] = MergeCache(loc[p].cache, data, loc[p].now)]
             /\ pc' = [pc EXCEPT ![p] = "commit"]
             /\ ret' = ret
  /\ UNCHANGED <<now, avKey, dbVars, watch, reqs>>

\* lines 150-170: the news inserts, await db.commit(), await db.refresh(cache)
Commit(p) ==
  /\ pc[p] = "commit"
  /\ step' = "commit"
  /\ LET t == loc[p].ticker
         data == loc[p].fetched.data
         cache2 == FlushCache(dbCache, sess[p])
     IN IF FlushRaises(dbCache, sess[p])
        THEN /\ Raise(p, "IntegrityError")
             /\ UNCHANGED <<dbVars, loc>>
        ELSE /\ dbStock' = [dbStock EXCEPT ![t] = FlushRow(@, loc[p].stockOrig, loc[p].stock)]
             /\ dbCache' = cache2
             /\ dbNews' = InsertAllNews(dbNews, NewsOf(data), t)
             /\ sess' = [sess EXCEPT ![p] = Refreshed(Committed(@), cache2, t)]
             /\ loc' = loc
             /\ Finish(p, loc[p].fetched, "cache", "", FALSE, cache2[t])
  /\ UNCHANGED <<now, avKey, watch, reqs>>

\* the request ends: its session is closed (rolled back after an error)
EndRequest(p) ==
  /\ pc[p] = "idle"
  /\ sess[p] # FreshSession
  /\ sess' = [sess EXCEPT ![p] = FreshSession]
  /\ loc' = [loc EXCEPT ![p] = NoLoc]
  /\ step' = "end_request"
  /\ UNCHANGED <<now, avKey, dbVars, pc, ret, watch, reqs>>

ConcNext ==
  \/ \E p \in Procs : Begin(p, watch, ConcPref)
  \/ \E p \in Procs, avRaw \in ConcAvRaws, yfInp \in ConcYfInputs :
       Fetch(p, FetchData(loc[p].pref, avKey, avRaw, yfInp, watch))
  \/ \E p \in Procs : EnsureStock(p)
  \/ \E p \in Procs : CommitStock(p)
  \/ \E p \in Procs : SelectStock(p)
  \/ \E p \in Procs : Commit(p)
  \/ \E p \in Procs : EndRequest(p)
  \/ \E d \in ConcDelays : Tick(d)

NextConc == ConcNext /\ UNCHANGED <<routeVars, batchVars, providerVars, portfolioVars, indicatorVars, serviceVars>>

\* the default configuration: no Alpha Vantage key (config.py 17)
InitConc == Init /\ ~avKey

SpecConc == InitConc /\ [][NextConc]_vars

\* ===================================================================
\* Properties of sequential calls (specification Spec)
\* ===================================================================
TheCall == ret.op = "get"
Src(i) == ret.contacts[i].src
Got(i) == Truthy(ret.contacts[i].data)
Priced(d) == "price" \in DOMAIN d /\ d["price"] # Null
Quoted(d) == Priced(d) /\ Get(d, "changePercent", 0) # Null
IsMock(snap) == "shortName" \in DOMAIN snap
RowFresh60(row, tnow) == row.exists /\ tnow - row.last_updated < 60

\* C1: a call that finds a committed cache row for its ticker less than 60
\* seconds old returns exactly that row, contacts no provider and changes no
\* table and no session object; so a second such call returns the same snapshot.
C1_FreshRowReturnedUnchanged ==
  [][(step' = "get" /\ RowFresh60(dbCache[watch], now))
       => /\ ret'.kind = "cache" /\ ret'.hit
          /\ ret'.snap = dbCache[watch]
          /\ ret'.contacts = <<>>
          /\ UNCHANGED dbVars
          /\ sess'[Caller].cur[watch] = dbCache[watch]
          /\ (step = "get" /\ ret.hit => ret'.snap = ret.snap)]_vars

C1_Witness ==
  /\ step = "get" /\ TheCall /\ ret.hit /\ ret.kind = "cache"
  /\ ret.snap = dbCache[watch] /\ ret.at - ret.snap.last_updated = 45

\* C2: a call made with force_refresh=True when the cached row is younger than
\* 60 seconds contacts a provider and rewrites the cached row.
C2_ForcedRefreshBypassesCache ==
  (ret.op = "forced" /\ RowFresh60(ret.before, ret.at))
    => /\ ret.contacts # <<>>
       /\ ret.kind = "cache"
       /\ dbCache[ret.ticker].last_updated = ret.at

C4_NeverRaises == TheCall => ret.kind # "error"

\* C5: when no provider gave data and the ticker has no cached row, the call
\* returns the mock dict, whose name carries the SIMULATED marker and whose
\* currentPrice is not None.
C5_MockIsFlaggedAndPriced ==
  (TheCall /\ ~ret.hit /\ ~Truthy(ret.data) /\ ~ret.before.exists)
    => /\ ret.kind = "mock"
       /\ IsMock(ret.snap)
       /\ ret.snap.shortName = <<ret.ticker, " (SIMULATED)">>
       /\ ret.snap.currentPrice # Null /\ ret.snap.currentPrice > 0

C5_Witness ==
  /\ TheCall /\ ret.kind = "mock" /\ ret.contacts # <<>>
  /\ \A i \in 1..Len(ret.contacts) : ~Got(i)
  /\ ~dbCache[ret.ticker].exists

\* C6: every snapshot the simulation fallback returns is marked: a mock by its
\* SIMULATED name, a perturbed cached row by a market status that no real
\* fetch writes.
RealStatuses == {"PRE_MARKET", "OPEN", "AFTER_HOURS", "CLOSED"}
Marked(snap) ==
  IF IsMock(snap) THEN Len(snap.shortName) = 2 /\ snap.shortName[2] = " (SIMULATED)"
  ELSE snap.market_status \notin RealStatuses
C6_SimulatedIsMarked ==
  (TheCall /\ ~ret.hit /\ ~Truthy(ret.data) /\ ret.kind # "error") => Marked(ret.snap)

\* C7: a call never blanks a known field: an indicator or fundamental value
\* that is stored stays as it is when the fetched data has no value for it
\* (key absent or None).
NoValue(d, k) == Get(d, k, Null) = Null
C7_MergeKeepsKnownValues ==
  [][(step' = "get" /\ ret'.kind = "cache" /\ ~ret'.hit /\ Truthy(ret'.data)) =>
       LET d == ret'.data
           t == ret'.ticker
       IN /\ (dbCache[t].rsi_14 # Null /\ NoValue(d, "rsi"))
               => dbCache'[t].rsi_14 = dbCache[t].rsi_14
          /\ (dbCache[t].ma_50 # Null /\ NoValue(d, "ma50"))
               => dbCache'[t].ma_50 = dbCache[t].ma_50
          /\ (dbStock[t].pe_ratio # Null /\ NoValue(Get(d, "fundamental", EmptyDict), "peRatio"))
               => dbStock'[t].pe_ratio = dbStock[t].pe_ratio]_vars

\* C8: data is merged into the cache only when it carries a non-null price,
\* and a merge never leaves current_price 0 or null.
C8_OnlyPricedDataIsMerged ==
  (TheCall /\ ret.kind = "cache" /\ ~ret.hit /\ Truthy(ret.data))
    => /\ Priced(ret.data)
       /\ dbCache[ret.ticker].current_price \notin {0, Null}

\* C9: without a forced refresh, a cached snapshot 65 seconds old makes the
\* call run one fetch cycle (each provider contacted at most once, at least
\* one contacted), and one 45 seconds old makes it run none.
C9_StaleFetchesOnceFreshNever ==
  (TheCall /\ ret.before.exists) =>
    LET age == ret.at - ret.before.last_updated
        srcs == {ret.contacts[i].src : i \in 1..Len(ret.contacts)}
    IN /\ age = 65 => ~ret.hit /\ ret.contacts # <<>> /\ Cardinality(srcs) = Len(ret.contacts)
       /\ age = 45 => ret.hit /\ ret.contacts = <<>> /\ ret.snap = ret.before

C9_Witness65 ==
  TheCall /\ ret.before.exists /\ ret.at - ret.before.last_updated = 65 /\ ~ret.hit

C9_Witness ==
  TheCall /\ ret.before.exists /\ ret.at - ret.before.last_updated = 45 /\ ret.hit

\* ===================================================================
\* Properties of concurrent callers (specification SpecConc)
\* ===================================================================
\* C10: refreshes of one ticker are serialized: from the moment a request
\* has read the cached row until it commits, no other request changes that
\* row or the Stock row it merges into, and no request ends with an
\* IntegrityError (two requests inserting the same Stock or cache row).
C10_RefreshesSerialized ==
  /\ \A p \in Procs : pc[p] # "idle" => dbCache[loc[p].ticker] = loc[p].cache
  /\ \A p \in Procs : pc[p] = "commit" => dbStock[loc[p].ticker] = loc[p].readStock
  /\ TheCall => ret.err # "IntegrityError"

\* ===================================================================
\* News (specification Spec)
\* ===================================================================
\* C11: the news table holds at most one row per (ticker, link); a call whose
\* news items all collide with stored rows leaves the table as it is, and no
\* call modifies or removes a row stored before it.
FetchedNewsRows == {NewsRow(NewsOf(ret.data)[i], ret.ticker) : i \in 1..Len(NewsOf(ret.data))}
Collides(r, rows) == \E q \in rows : q.id = r.id \/ (q.ticker = r.ticker /\ q.link = r.link)
Digits == {"0", "1", "2", "3", "4", "5", "6", "7", "8", "9"}
UpperOf ==
  [a |-> "A", e |-> "E", f |-> "F", h |-> "H", k |-> "K", l |-> "L",
   m |-> "M", p |-> "P", r |-> "R", s |-> "S", t |-> "T", z |-> "Z"]

\* str.upper()
Upper(str) == [i \in 1..Len(str) |-> IF str[i] \in DOMAIN UpperOf THEN UpperOf[str[i]] ELSE str[i]]

\* re.match(r'^\d{6}$', str); "$" also matches before a final newline
MatchSixDigits(str) ==
  /\ Len(str) >= 6
  /\ \A i \in 1..6 : str[i] \in Digits
  /\ Len(str) = 6 \/ (Len(str) = 7 /\ str[7] = "\n")

\* re.match(r'^\d{6}(\.(SH|SZ))?$', str)
MatchAShare(str) ==
  \/ MatchSixDigits(str)
  \/ /\ Len(str) >= 9
     /\ \A i \in 1..6 : str[i] \in Digits
     /\ str[7] = "." /\ str[8] = "S" /\ str[9] \in {"H", "Z"}
     /\ Len(str) = 9 \/ (Len(str) = 10 /\ str[10] = "\n")

YFINANCE == <<"Y", "F", "I", "N", "A", "N", "C", "E">>
ALPHA_VANTAGE == <<"A", "L", "P", "H", "A", "_", "V", "A", "N", "T", "A", "G", "E">>
AKSHARE == <<"A", "K", "S", "H", "A", "R", "E">>
KnownSources == {YFINANCE, ALPHA_VANTAGE, AKSHARE}

\* the tickers and preferences get_provider is called with
RouteTickers ==
  {<<"6", "0", "0", "5", "1", "9">>,
   <<"6", "0", "0", "5", "1", "9", ".", "S", "H">>,
   <<"0", "0", "0", "0", "0", "1", ".", "S", "Z">>,
   <<"6", "0", "0", "5", "1", "9", ".", "s", "h">>,
   <<"6", "0", "0", "5", "1", "9", ".", "S", "S">>,
   <<"6", "0", "0", "5", "1", "9", ".", "H", "K">>,
   <<"6", "0", "0", "5", "1">>,
   <<"6", "0", "0", "5", "1", "9", "0">>,
   <<"A", "A", "P", "L">>,
   <<"a", "a", "p", "l">>}
RoutePrefs ==
  {YFINANCE, ALPHA_VANTAGE, AKSHARE,
   <<"a", "k", "s", "h", "a", "r", "e">>,
   <<"T", "A", "V", "I", "L", "Y">>}

\* lines 23-33: the source name get_provider resolves to
IsAShare(ticker) == MatchAShare(Upper(ticker))

ResolveSource_SixDigitsOnly(ticker, pref) ==
  IF MatchSixDigits(Upper(ticker)) THEN AKSHARE
  ELSE IF Upper(pref) \notin KnownSources THEN YFINANCE ELSE Upper(pref)

ResolveSource(ticker, pref) ==
  IF IsAShare(ticker) THEN AKSHARE
  ELSE IF Upper(pref) \notin KnownSources THEN YFINANCE ELSE Upper(pref)

\* lines 41-49: the class _get_instance constructs for a source name
ProviderClass(source) ==
  IF source = YFINANCE THEN "YFinanceProvider"
  ELSE IF source = ALPHA_VANTAGE THEN "AlphaVantageProvider"
  ELSE IF source = AKSHARE THEN "AkShareProvider"
  ELSE "YFinanceProvider"

\* lines 40-50: _get_instance constructs when the name is not memoized
MustConstruct_Always(insts, source) == TRUE

MustConstruct(insts, source) == source \notin DOMAIN insts

NewInstance(source) == [cls |-> ProviderClass(source), id |-> Len(built) + 1]

\* ProviderFactory.get_provider(ticker, preferred_source)
GetProvider(ticker, pref) ==
  LET source == ResolveSource(ticker, pref)
      make == MustConstruct(instances, source)
      insts == IF make THEN (source :> NewInstance(source)) @@ instances ELSE instances
  IN /\ instances' = insts
     /\ built' = IF make THEN Append(built, [source |-> source, inst |-> NewInstance(source)])
                 ELSE built
     /\ got' = [op |-> "get_provider", ticker |-> ticker, pref |-> pref,
                ashare |-> IsAShare(ticker), source |-> source,
                inst |-> insts[source], made |-> make]
     /\ bg' = bg

\* _background_fetch(ticker), lines 319-327: the source is chosen by the
\* 6-digit pattern, then get_real_time_data(..., force_refresh=True) raises
\* TypeError (market_data.py 15 has no such parameter), which is logged
BackgroundSource(ticker) == IF MatchSixDigits(ticker) THEN AKSHARE ELSE YFINANCE

BackgroundFetch(ticker) ==
  /\ bg' = [op |-> "background_fetch", ticker |-> ticker,
            source |-> BackgroundSource(ticker), err |-> "TypeError"]
  /\ UNCHANGED <<instances, built, got>>

\* add_portfolio_item hands _background_fetch item.ticker.upper().strip()
\* (portfolio.py 282, 310)
BackgroundTickers == {Upper(t) : t \in RouteTickers}

RouteNext ==
  \/ \E t \in RouteTickers, pref \in RoutePrefs : GetProvider(t, pref)
  \/ \E t \in BackgroundTickers : BackgroundFetch(t)

NextRoute == RouteNext /\ UNCHANGED <<marketVars, batchVars, providerVars, portfolioVars, indicatorVars, serviceVars>>

\* the factory starts with no memoized instance (factory.py 13)
InitRouting ==
  /\ InitMarket /\ ~avKey /\ watch = "AAPL"
  /\ InitRoute
  /\ InitBatch
  /\ InitOthers

SpecRoute == InitRouting /\ [][NextRoute]_vars

\* C12: get_provider returns the AkShare provider for every ticker of the
\* A-share shape (six digits, optionally followed by .SH or .SZ, in any letter
\* case) whatever the preference, and for every other ticker the provider the
\* preference names, YFinance when it names no known source.
AShareShaped(t) ==
  /\ Len(t) \in {6, 9}
  /\ \A i \in 1..6 : t[i] \in Digits
  /\ Len(t) = 9 => SubSeq(Upper(t), 7, 9) \in {<<".", "S", "H">>, <<".", "S", "Z">>}
NamedClass(pref) ==
  IF Upper(pref) = AKSHARE THEN "AkShareProvider"
  ELSE IF Upper(pref) = ALPHA_VANTAGE THEN "AlphaVantageProvider"
  ELSE "YFinanceProvider"
C12_RoutingByShape ==
  got.op = "get_provider" =>
    got.inst.cls = IF AShareShaped(got.ticker) THEN "AkShareProvider" ELSE NamedClass(got.pref)

\* a suffixed A-share ticker asked for with preference YFINANCE got AkShare
C12_Witness ==
  /\ got.op = "get_provider"
  /\ got.ticker = <<"6", "0", "0", "5", "1", "9", ".", "S", "H">>
  /\ got.pref = YFINANCE
  /\ got.inst.cls = "AkShareProvider"

\* C13: at most one provider object is ever constructed per source name, a
\* memoized object is never replaced, and every call returns the object
\* memoized for the source it resolves to.
C13_OneInstancePerSource ==
  [][/\ \A i, j \in 1..Len(built') : built'[i].source = built'[j].source => i = j
     /\ \A src \in DOMAIN instances :
          src \in DOMAIN instances' /\ instances'[src] = instances[src]
     /\ got'.op = "get_provider" =>
          /\ got'.source \in DOMAIN instances'
          /\ got'.inst = instances'[got'.source]
          /\ \E i \in 1..Len(built') : built'[i] = [source |-> got'.source, inst |-> got'.inst]]_vars

\* all three sources are memoized and the last call was served from the memo
C13_Witness ==
  /\ Len(built) = 3
  /\ got.op = "get_provider" /\ ~got.made
  /\ got.inst = instances[got.source] /\ got.inst.id < 3

\* C19: the factory and _background_fetch classify a ticker alike: for the
\* same ticker, get_provider with its default preference YFINANCE and
\* _background_fetch choose the same source.
C19_SameClassification ==
  (got.op = "get_provider" /\ bg.op = "background_fetch"
     /\ got.ticker = bg.ticker /\ got.pref = YFINANCE)
    => got.source = bg.source

\* ===================================================================
\* Batch refresh: refresh_all_stocks (stock.py 79-123).  Each refresh_one
\* task is followed through its awaits: the semaphore, then the call.
\* ===================================================================
\* select(Portfolio.ticker).distinct()
DistinctTickers(h) == {t \in BatchTickers : h[t] > 0}

\* get_real_time_data(ticker, db, force_refresh=True), line 104: the
\* signature (market_data.py 15) has no such parameter, so the call raises
\* TypeError and nothing is fetched
ForcedRefresh(t) == [ticker |-> t, forced |-> TRUE, raised |-> TRUE, err |-> "TypeError", fetched |-> FALSE]

\* lines 105-108: refresh_one returns the ticker, or None after an exception
RefreshOneResult_Always(t, out) == t

RefreshOneResult(t, out) == IF out.raised THEN Null ELSE t

\* asyncio.Semaphore.acquire proceeds while a permit is left
CanAcquire_Unbounded(permits) == TRUE

CanAcquire(permits) == permits > 0

\* lines 114-120
Response(tks, res) ==
  LET updated == {t \in tks : res[t] # Null}
  IN [updated_count |-> Cardinality(updated),
      failed_count |-> Cardinality(tks) - Cardinality(updated)]

\* lines 90-112: the select; an empty portfolio is answered at once,
\* otherwise one task per ticker is created
StartBatch ==
  /\ phase = "idle"
  /\ tickers' = DistinctTickers(holders)
  /\ IF DistinctTickers(holders) = {}
     THEN /\ phase' = "done"
          /\ resp' = [updated_count |-> 0]
          /\ UNCHANGED <<task, sem>>
     ELSE /\ phase' = "running"
          /\ sem' = SemaphoreLimit
          /\ task' = [t \in BatchTickers |-> IF t \in DistinctTickers(holders) THEN "queued" ELSE "none"]
          /\ resp' = resp
  /\ UNCHANGED <<holders, calls, results, job>>

\* line 101: async with semaphore, entered
Acquire(t) ==
  /\ phase = "running" /\ task[t] = "queued"
  /\ CanAcquire(sem)
  /\ sem' = sem - 1
  /\ task' = [task EXCEPT ![t] = "running"]
  /\ UNCHANGED <<holders, phase, tickers, calls, results, resp, job>>

\* lines 102-108: the forced call, its exception caught, the semaphore left
RefreshOne(t) ==
  /\ phase = "running" /\ task[t] = "running"
  /\ calls' = [calls EXCEPT ![t] = Append(@, ForcedRefresh(t))]
  /\ results' = [results EXCEPT ![t] = RefreshOneResult(t, ForcedRefresh(t))]
  /\ sem' = sem + 1
  /\ task' = [task EXCEPT ![t] = "done"]
  /\ UNCHANGED <<holders, phase, tickers, resp, job>>

\* lines 112-120: gather returns when every task has, and the counts are built
Gather ==
  /\ phase = "running"
  /\ \A t \in tickers : task[t] = "done"
  /\ phase' = "done"
  /\ resp' = Response(tickers, results)
  /\ UNCHANGED <<holders, tickers, task, sem, calls, results, job>>

BatchNext ==
  \/ StartBatch
  \/ \E t \in BatchTickers : Acquire(t)
  \/ \E t \in BatchTickers : RefreshOne(t)
  \/ Gather

NextBatch == BatchNext /\ UNCHANGED <<marketVars, routeVars, providerVars, portfolioVars, indicatorVars, serviceVars>>

\* the portfolio refresh_all_stocks finds: the first n tickers are held, the
\* first of them by one or by two users
Holdings ==
  {[t \in BatchTickers |-> IF t > n THEN 0 ELSE IF t = 1 THEN k ELSE 1] :
     n \in 0..MaxBatch, k \in {1, 2}}

InitBatchAny ==
  /\ InitMarket /\ ~avKey /\ watch = "AAPL"
  /\ InitRoute
  /\ InitOthers
  /\ InitTasks
  /\ holders \in Holdings

SpecBatch == InitBatchAny /\ [][NextBatch]_vars

Running == {t \in BatchTickers : task[t] = "running"}

\* C14: during refresh_all_stocks, whatever the number of tickers, at most 5
\* refresh_one tasks are inside the semaphore at once.
C14_AtMostFiveInProgress ==
  /\ Cardinality(Running) <= 5
  /\ phase = "running" => sem + Cardinality(Running) = 5

\* five refreshes are in progress while a sixth ticker waits
C14_Witness ==
  /\ phase = "running"
  /\ Cardinality(Running) = 5
  /\ \E t \in tickers : task[t] = "queued"

C16_PartialFailureStillSucceeds ==
  (TheCall /\ ~ret.hit /\ \E i \in 1..Len(ret.contacts) : ret.contacts[i].partial) =>
    /\ ret.kind = "cache"
    /\ Priced(ret.data)
    /\ ret.snap.current_price = ret.data["price"]
    /\ ret.snap.last_updated = ret.at
    /\ dbCache[ret.ticker] = ret.snap

\* ===================================================================
\* Provider methods (market_providers/yfinance.py, akshare.py,
\* alpha_vantage.py, tavily.py, base.py).  A call is given an environment:
\* what each remote request does ("ok": an answer with the data asked for,
\* "empty": an answer without it, "raise": an exception), whether building
\* the result from an answer raises (float(None), a validation error, a
\* missing column), and whether the provider's API key is configured.
\* A result is the value returned ("None", "[]" or "data"), or raised, with
\* the remote requests made in order.
\* ===================================================================
Outcomes == {"ok", "empty", "raise"}
Providers == {"YFinance", "AkShare", "AlphaVantage", "Tavily"}
Methods == {"get_quote", "get_fundamental_data", "get_historical_data", "get_news", "get_full_data"}
Remotes ==
  [YFinance |-> {"info", "history", "news"},
   AkShare |-> {"spot_em", "info_em", "sina_spot", "hist_em", "sina_daily", "ths", "news_em"},
   AlphaVantage |-> {"av_quote", "av_overview"},
   Tavily |-> {"tavily_search"}]
Envs(prov) ==
  {[key |-> k, build |-> b, env |-> f] :
     k \in (IF prov \in {"AlphaVantage", "Tavily"} THEN BOOLEAN ELSE {TRUE}),
     b \in {"ok", "raise"},
     f \in [Remotes[prov] -> Outcomes]}

Ok(v, made) == [raised |-> FALSE, value |-> v, calls |-> made]
Raised(made) == [raised |-> TRUE, value |-> "exception", calls |-> made]

\* try: ... except Exception: return fallback
Caught_Rethrow(out, fallback) == out

Caught(out, fallback) == IF out.raised THEN Ok(fallback, out.calls) ELSE out

\* one remote request, then the result built from its answer
One(e, r, emptyValue) ==
  IF e.env[r] = "raise" THEN Raised(<<r>>)
  ELSE IF e.env[r] = "empty" THEN Ok(emptyValue, <<r>>)
  ELSE IF e.build = "raise" THEN Raised(<<r>>)
  ELSE Ok("data", <<r>>)

\* out2 runs only when out1 gave no data; the requests of both are logged
OrElse_Eager(out1, out2) ==
  IF out1.raised \/ out1.value = "data" THEN [out1 EXCEPT !.calls = @ \o out2.calls]
  ELSE [out2 EXCEPT !.calls = out1.calls \o @]

OrElse(out1, out2) ==
  IF out1.raised \/ out1.value = "data" THEN out1
  ELSE [out2 EXCEPT !.calls = out1.calls \o @]

\* ---- YFinanceProvider (yfinance.py 36-143, 190-282)
YfGetQuote(e) == Caught(One(e, "info", "None"), "None")
YfGetFundamental(e) == Caught(One(e, "info", "None"), "None")
YfGetHistorical(e) == Caught(One(e, "history", "None"), "None")
YfGetNews(e) == Caught(One(e, "news", "[]"), "[]")
\* the three requests are gathered with return_exceptions=True; the quote
\* decides the result
YfGetFullData(e) ==
  LET made == <<"info", "history", "news">>
      body == IF e.build = "raise" /\ \E r \in Remotes.YFinance : e.env[r] = "ok"
              THEN Raised(made)
              ELSE IF e.env["info"] = "ok" THEN Ok("data", made) ELSE Ok("None", made)
  IN Caught(body, "None")

\* ---- AkShareProvider (akshare.py 81-377)
\* get_ohlcv: Eastmoney history in a try of its own, then Sina daily
\* (akshare.py 325-377); the rows are built after both requests, inside the
\* outer try
AkGetOhlcv(e) ==
  LET made == IF e.env["hist_em"] = "ok" THEN <<"hist_em">> ELSE <<"hist_em", "sina_daily">>
      body == IF e.env["hist_em"] # "ok" /\ e.env["sina_daily"] = "raise" THEN Raised(made)
              ELSE IF e.env["hist_em"] # "ok" /\ e.env["sina_daily"] = "empty" THEN Ok("[]", made)
              ELSE IF e.build = "raise" THEN Raised(made)
              ELSE Ok("data", made)
  IN Caught(body, "[]")

\* get_quote: each source in a try of its own, the next one tried when the
\* one before gave no quote; last the history-derived quote
AkGetQuote(e) ==
  LET s1 == Caught(One(e, "spot_em", "None"), "None")
      s2 == Caught(One(e, "info_em", "None"), "None")
      s3 == Caught(One(e, "sina_spot", "None"), "None")
      o4 == AkGetOhlcv(e)
      s4 == Ok(IF o4.value = "data" THEN "data" ELSE "None", o4.calls)
  IN Caught(OrElse(OrElse(OrElse(s1, s2), s3), s4), "None")

\* get_fundamental_data: every part in a try of its own, then the
\* ProviderFundamental is built from whatever was obtained
AkGetFundamental(e) ==
  LET made == <<"info_em", "ths">> \o AkGetOhlcv(e).calls \o AkGetQuote(e).calls
  IN Caught(IF e.build = "raise" THEN Raised(made) ELSE Ok("data", made), "None")

\* get_historical_data: only the Eastmoney request has a try of its own
AkGetHistorical(e) ==
  LET em == IF e.env["hist_em"] = "raise" THEN Ok("None", <<"hist_em">>)
            ELSE One(e, "hist_em", "None")
  IN Caught(OrElse(em, One(e, "sina_daily", "None")), "None")

AkGetNews(e) == Caught(One(e, "news_em", "[]"), "[]")

\* ---- AlphaVantageProvider (alpha_vantage.py 15-72)
AvGetQuote(e) ==
  IF ~e.key THEN Ok("None", <<>>) ELSE Caught(One(e, "av_quote", "None"), "None")
AvGetFundamental(e) ==
  IF ~e.key THEN Ok("None", <<>>) ELSE Caught(One(e, "av_overview", "None"), "None")

\* ---- TavilyProvider (tavily.py 22-67)
TavilyGetNews(e) ==
  IF ~e.key THEN Ok("[]", <<>>) ELSE Caught(One(e, "tavily_search", "[]"), "[]")

\* the method a provider object runs; get_full_data of a provider that does
\* not define it is the base class's, which returns None (base.py 38-43)
CallMethod(prov, meth, e) ==
  CASE prov = "YFinance" /\ meth = "get_quote" -> YfGetQuote(e)
    [] prov = "YFinance" /\ meth = "get_fundamental_data" -> YfGetFundamental(e)
    [] prov = "YFinance" /\ meth = "get_historical_data" -> YfGetHistorical(e)
    [] prov = "YFinance" /\ meth = "get_news" -> YfGetNews(e)
    [] prov = "YFinance" /\ meth = "get_full_data" -> YfGetFullData(e)
    [] prov = "AkShare" /\ meth = "get_quote" -> AkGetQuote(e)
    [] prov = "AkShare" /\ meth = "get_fundamental_data" -> AkGetFundamental(e)
    [] prov = "AkShare" /\ meth = "get_historical_data" -> AkGetHistorical(e)
    [] prov = "AkShare" /\ meth = "get_news" -> AkGetNews(e)
    [] prov = "AlphaVantage" /\ meth = "get_quote" -> AvGetQuote(e)
    [] prov = "AlphaVantage" /\ meth = "get_fundamental_data" -> AvGetFundamental(e)
    [] prov = "Tavily" /\ meth = "get_news" -> TavilyGetNews(e)
    [] meth = "get_news" /\ prov = "AlphaVantage" -> Ok("[]", <<>>)
    [] OTHER -> Ok("None", <<>>)

\* the method call that is about to be made
PendingCalls ==
  UNION {{[op |-> "pending", prov |-> prov, meth |-> meth, env |-> e] :
            meth \in Methods, e \in Envs(prov)} : prov \in Providers}

ProviderCall ==
  /\ pcall.op = "pending"
  /\ pcall' = [op |-> "call", prov |-> pcall.prov, meth |-> pcall.meth, env |-> pcall.env,
               out |-> CallMethod(pcall.prov, pcall.meth, pcall.env)]
  /\ fcall' = fcall

ProviderNext == ProviderCall

NextProvider ==
  ProviderNext /\ UNCHANGED <<marketVars, routeVars, batchVars, portfolioVars, indicatorVars, serviceVars>>

InitProvider ==
  /\ InitMarket /\ ~avKey /\ watch = "AAPL"
  /\ InitRoute
  /\ InitBatch
  /\ pfRows = {} /\ pfOp = NoCall /\ ind = NoCall /\ rr = NoCall
  /\ InitServices
  /\ pcall \in PendingCalls
  /\ fcall = NoCall

SpecProvider == InitProvider /\ [][NextProvider]_vars

C40_FullDataFollowsQuote ==
  (pcall.op = "call" /\ pcall.prov = "YFinance" /\ pcall.meth = "get_full_data") =>
    /\ (pcall.out.value = "data") <=> (pcall.env.env["info"] = "ok")
    /\ (pcall.out.value = "None") <=> (pcall.env.env["info"] # "ok")
    /\ pcall.out.calls = <<"info", "history", "news">>

\* AkShareProvider.get_quote's sources in the order of akshare.py 87-191,
\* and whether a source yields a quote in the environment e
QuoteSources == <<"spot_em", "info_em", "sina_spot", "history">>

Yields(e, source) ==
  /\ e.build = "ok"
  /\ IF source = "history" THEN e.env["hist_em"] = "ok" \/ e.env["sina_daily"] = "ok"
     ELSE e.env[source] = "ok"

\* the sources a list of remote requests went to, the two history requests
\* taken as one source
RECURSIVE SourcesTried(_)
SourcesTried(made) ==
  IF made = <<>> THEN <<>>
  ELSE LET src == IF Head(made) \in {"hist_em", "sina_daily"} THEN "history" ELSE Head(made)
           rest == SourcesTried(Tail(made))
       IN IF rest # <<>> /\ Head(rest) = src THEN rest ELSE <<src>> \o rest

\* C34: get_quote tries Eastmoney spot, Eastmoney individual info, Sina spot
\* and the history-derived quote in this order, stops at the first source
\* that yields a quote, goes on after a failure, and returns None only if
\* all four fail.
C34_QuoteSourcesInOrder ==
  (pcall.op = "call" /\ pcall.prov = "AkShare" /\ pcall.meth = "get_quote") =>
    LET e == pcall.env
        good == {k \in 1..Len(QuoteSources) : Yields(e, QuoteSources[k])}
        last == IF good = {} THEN Len(QuoteSources)
                ELSE CHOOSE k \in good : \A m \in good : k <= m
    IN /\ SourcesTried(pcall.out.calls) = SubSeq(QuoteSources, 1, last)
       /\ (pcall.out.value = "None") <=> (good = {})
       /\ (pcall.out.value = "data") <=> (good # {})

\* the first two sources failed, one raising and one without a quote, the
\* Sina spot source gave the quote and the history was not asked
C34_Witness ==
  /\ pcall.op = "call" /\ pcall.prov = "AkShare" /\ pcall.meth = "get_quote"
  /\ pcall.env.env["spot_em"] = "raise" /\ pcall.env.env["info_em"] = "empty"
  /\ pcall.env.env["hist_em"] = "ok"
  /\ pcall.out.value = "data"
  /\ pcall.out.calls = <<"spot_em", "info_em", "sina_spot">>

Whitespace == {" ", "\t", "\n"}

\* str.strip()
RECURSIVE LStrip(_)
LStrip(str) == IF str # <<>> /\ Head(str) \in Whitespace THEN LStrip(Tail(str)) ELSE str
RECURSIVE RStrip(_)
RStrip(str) ==
  IF str # <<>> /\ str[Len(str)] \in Whitespace THEN RStrip(SubSeq(str, 1, Len(str) - 1)) ELSE str
Strip(str) == RStrip(LStrip(str))

\* the ticker strings the endpoints are called with
PortfolioInputs ==
  {<<"A", "A", "P", "L">>, <<"a", "a", "p", "l">>, <<"A", "a", "p", "l">>,
   <<" ", "a", "a", "p", "l">>, <<"M", "S", "F", "T">>, <<"m", "s", "f", "t">>,
   <<"6", "0", "0", "5", "1", "9", ".", "s", "h">>}

\* ticker.upper().strip() (lines 282, 358, 386)
NormalizeTicker(inp) == Strip(Upper(inp))

\* the ticker each endpoint puts in its WHERE clause
AddKey(inp) == NormalizeTicker(inp)
DeleteKey(inp) == inp
RefreshKey(inp) == NormalizeTicker(inp)
NewsKey(inp) == NormalizeTicker(inp)

PortfolioOp(op, inp, key, status) ==
  [op |-> op, input |-> inp, key |-> key, status |-> status, before |-> pfRows]

\* add_portfolio_item, lines 271-312: the row is stored or updated under the
\* normalized ticker; no cache row exists (no forced fetch ever stores one),
\* so _background_fetch is scheduled for that ticker
AddPortfolioItem(inp) ==
  /\ pfRows' = pfRows \cup {AddKey(inp)}
  /\ pfOp' = PortfolioOp("add", inp, AddKey(inp), 200)
  /\ BackgroundFetch(AddKey(inp))

\* delete_portfolio_item, lines 333-349
DeletePortfolioItem(inp) ==
  /\ IF DeleteKey(inp) \in pfRows
     THEN /\ pfRows' = pfRows \ {DeleteKey(inp)}
          /\ pfOp' = PortfolioOp("delete", inp, DeleteKey(inp), 200)
     ELSE /\ pfRows' = pfRows
          /\ pfOp' = PortfolioOp("delete", inp, DeleteKey(inp), 404)
  /\ UNCHANGED routeVars

\* refresh_stock_data, lines 351-375: the forced call raises TypeError
\* (market_data.py 15), answered with status 500
RefreshStockData(inp) ==
  /\ pfRows' = pfRows
  /\ pfOp' = PortfolioOp("refresh", inp, RefreshKey(inp), 500)
  /\ UNCHANGED routeVars

\* get_stock_news, lines 378-395
GetStockNews(inp) ==
  /\ pfRows' = pfRows
  /\ pfOp' = PortfolioOp("news", inp, NewsKey(inp), 200)
  /\ UNCHANGED routeVars

PortfolioNext ==
  \/ \E inp \in PortfolioInputs : AddPortfolioItem(inp)
  \/ \E inp \in PortfolioInputs : DeletePortfolioItem(inp)
  \/ \E inp \in PortfolioInputs : RefreshStockData(inp)
  \/ \E inp \in PortfolioInputs : GetStockNews(inp)

NextPortfolio ==
  PortfolioNext /\ UNCHANGED <<marketVars, batchVars, providerVars, indicatorVars, serviceVars>>

InitPortfolio ==
  /\ InitMarket /\ ~avKey /\ watch = "AAPL"
  /\ InitRoute
  /\ InitBatch
  /\ InitOthers

SpecPortfolio == InitPortfolio /\ [][NextPortfolio]_vars

\* C18: once add_portfolio_item has stored the entry for an input string,
\* delete_portfolio_item, refresh_stock_data and get_stock_news called with
\* that same string address that entry: they look up the ticker it is stored
\* under, and the delete finds and removes it.
C18_SameNormalizationEverywhere ==
  (pfOp.op \in {"delete", "refresh", "news"} /\ AddKey(pfOp.input) \in pfOp.before) =>
    /\ pfOp.key = AddKey(pfOp.input)
    /\ pfOp.op = "delete" => pfOp.status = 200 /\ AddKey(pfOp.input) \notin pfRows

\* ===================================================================
\* TechnicalIndicators (services/indicators.py)
\* ===================================================================
MinBars == 10

\* an OHLCV frame: its rows and its column names
OHLCV == {"Open", "High", "Low", "Close", "Volume"}
Shapes == {"flat", "rising", "falling"}
CloseAt(shape, i) ==
  CASE shape = "flat" -> 20
    [] shape = "rising" -> 20 + i
    [] shape = "falling" -> 40 - i
Bar(shape, i) ==
  [Open |-> CloseAt(shape, i), High |-> CloseAt(shape, i) + 1,
   Low |-> CloseAt(shape, i) - 1, Close |-> CloseAt(shape, i), Volume |-> 100 * i]
Frame(n, shape, extra) ==
  [bars |-> [i \in 1..n |-> Bar(shape, i)], cols |-> OHLCV \cup extra]
\* pd.DataFrame(): no rows and no columns
NoFrame == [bars |-> <<>>, cols |-> {}]
Frames ==
  {Frame(n, shape, extra) :
     n \in 0..MaxBars, shape \in Shapes, extra \in {{}, {"Dividends", "Stock Splits"}}}
    \cup {NoFrame}

\* DataFrame.empty: an axis of length 0
Empty(df) == Len(df.bars) = 0 \/ df.cols = {}

\* the guard both functions start with (lines 14 and 52)
TooShort_Nine(df) == Empty(df) \/ Len(df.bars) < MinBars - 1
TooShort(df) == Empty(df) \/ Len(df.bars) < MinBars

HistoricalColumns ==
  {"macd", "macd_signal", "macd_hist", "rsi", "bb_upper", "bb_middle", "bb_lower"}

\* add_historical_indicators, lines 8-44: the frame itself when too short,
\* otherwise a copy with the indicator columns added
AddHistoricalIndicators(df) ==
  IF TooShort(df) THEN df ELSE [df EXCEPT !.cols = @ \cup HistoricalColumns]

\* `if len(close_prices) >= w` (lines 98, 111, 121, 134, 146, 171, 185, 187)
HasWindow_Padded(n, w) == n >= MinBars

HasWindow(n, w) == n >= w

\* calculate_all, lines 47-240: the keys of the dict it returns
CalculateAllKeys(hist) ==
  LET n == Len(hist.bars) IN
  IF TooShort(hist) THEN {}
  ELSE {"macd_val", "macd_signal", "macd_hist", "macd_cross", "macd_is_new_cross",
        "macd_hist_slope", "risk_reward_ratio"}
       \cup (IF HasWindow(n, 20) THEN {"ma_20", "bb_upper", "bb_middle", "bb_lower",
                              "volume_ma_20", "volume_ratio"} ELSE {})
       \cup (IF HasWindow(n, 15) THEN {"rsi_14", "atr_14"} ELSE {})
       \cup (IF HasWindow(n, 9) THEN {"k_line", "d_line", "j_line"} ELSE {})
       \cup (IF HasWindow(n, 28) THEN {"adx_14"} ELSE {})
       \cup (IF HasWindow(n, 2) THEN {"pivot_point", "resistance_1", "support_1",
                             "resistance_2", "support_2"} ELSE {})
       \cup (IF HasWindow(n, 50) THEN {"ma_50"} ELSE {})
       \cup (IF HasWindow(n, 120) THEN {"ma_200"} ELSE {})

IndicatorFns == {"calculate_all", "add_historical_indicators"}

PendingIndicatorCalls ==
  {[op |-> "pending", fn |-> fn, hist |-> df] : fn \in IndicatorFns, df \in Frames}

IndicatorCall ==
  /\ ind.op = "pending"
  /\ ind' = [op |-> "call", fn |-> ind.fn, hist |-> ind.hist,
             out |-> IF ind.fn = "calculate_all"
                     THEN CalculateAllKeys(ind.hist)
                     ELSE AddHistoricalIndicators(ind.hist)]
  /\ rr' = rr

IndicatorNext == IndicatorCall

NextIndicators ==
  IndicatorNext /\ UNCHANGED <<marketVars, routeVars, batchVars, providerVars, portfolioVars, serviceVars>>

InitIndicators ==
  /\ InitMarket /\ ~avKey /\ watch = "AAPL"
  /\ InitRoute
  /\ InitBatch
  /\ pcall = NoCall /\ fcall = NoCall /\ pfRows = {} /\ pfOp = NoCall /\ rr = NoCall
  /\ InitServices
  /\ ind \in PendingIndicatorCalls

SpecIndicators == InitIndicators /\ [][NextIndicators]_vars

\* calculate_all on histories of every length from 10 bars on
LongHistories ==
  {[op |-> "pending", fn |-> "calculate_all", hist |-> Frame(n, "rising", {})] :
     n \in MinBars..MaxHistory}

InitWindows ==
  /\ InitMarket /\ ~avKey /\ watch = "AAPL"
  /\ InitRoute
  /\ InitBatch
  /\ pcall = NoCall /\ fcall = NoCall /\ pfRows = {} /\ pfOp = NoCall /\ rr = NoCall
  /\ InitServices
  /\ ind \in LongHistories

SpecWindows == InitWindows /\ [][NextIndicators]_vars

\* C20: for every history of fewer than 10 bars, the empty one included,
\* calculate_all returns the empty indicator set and
\* add_historical_indicators returns its input unchanged.
C20_ShortHistoryGivesNothing ==
  (ind.op = "call" /\ Len(ind.hist.bars) < 10) =>
    /\ ind.fn = "calculate_all" => ind.out = {}
    /\ ind.fn = "add_historical_indicators" => ind.out = ind.hist

\* calculate_all was applied to a history of exactly 9 bars
C20_Witness ==
  /\ ind.op = "call"
  /\ ind.fn = "calculate_all"
  /\ Len(ind.hist.bars) = 9
  /\ ind.out = {}

\* C21: calculate_all returns the empty result for an empty history and
\* also for a history of exactly 10 bars.
C21_TenBarsGiveNothing ==
  (ind.op = "call" /\ ind.fn = "calculate_all"
     /\ (Empty(ind.hist) \/ Len(ind.hist.bars) = 10)) =>
    ind.out = {}

\* the minimum window of each indicator other than MACD
Windows ==
  [ma_20 |-> 20, bb_upper |-> 20, bb_middle |-> 20, bb_lower |-> 20,
   volume_ma_20 |-> 20, volume_ratio |-> 20, rsi_14 |-> 15, atr_14 |-> 15,
   k_line |-> 9, d_line |-> 9, j_line |-> 9, adx_14 |-> 28, ma_50 |-> 50,
   ma_200 |-> 120]

\* the keys test_calculate_all_basic expects (tests/test_indicators.py 27-35)
ExpectedKeys ==
  {"macd_val", "macd_signal", "macd_hist", "ma_20", "bb_upper", "bb_middle",
   "bb_lower", "volume_ma_20", "volume_ratio", "rsi_14", "k_line", "d_line",
   "j_line", "atr_14", "ma_50", "ma_200"}

MacdKeys ==
  {"macd_val", "macd_signal", "macd_hist", "macd_cross", "macd_is_new_cross",
   "macd_hist_slope"}

\* C36: for a history of at least 10 bars the MACD keys are in
\* calculate_all's result only when the history has at least 26 bars; with
\* fewer bars they are omitted.
C36_MacdNeedsItsWindow ==
  (ind.op = "call" /\ ind.fn = "calculate_all" /\ Len(ind.hist.bars) >= 10) =>
    \A key \in MacdKeys : key \in ind.out => Len(ind.hist.bars) >= 26

\* ===================================================================
\* calculate_all, section 9: the risk/reward ratio (indicators.py 190-238)
\* Prices are integers in units of 0.01; a ratio is in hundredths.
\* ===================================================================
\* what sections 1-8 left in result: the pivot keys always (>= 10 bars),
\* atr_14 from 15 bars, the Bollinger keys from 20, ma_50 from 50.
\* resistance_1 - support_1 is the previous bar's high - low
PivotLevels ==
  {[resistance_1 |-> 11000, support_1 |-> 10000],
   [resistance_1 |-> 10500, support_1 |-> 10500],
   [resistance_1 |-> 200, support_1 |-> 0],
   [resistance_1 |-> 100, support_1 |-> -50]}
AtrLevels == {[atr_14 |-> a] : a \in {0, 300, 1000}}
BandLevels ==
  {[bb_upper |-> 11500, bb_lower |-> 9500], [bb_upper |-> 10500, bb_lower |-> 10500]}
Ma50Levels == {[ma_50 |-> 10400]}
ClosePrices == {50, 150, 9000, 10400, 10999, 11000, 11499, 12000}

SectionResults ==
  PivotLevels
    \cup {a @@ pv : a \in AtrLevels, pv \in PivotLevels}
    \cup {b @@ a @@ pv : b \in BandLevels, a \in AtrLevels, pv \in PivotLevels}
    \cup {m @@ b @@ a @@ pv :
            m \in Ma50Levels, b \in BandLevels, a \in AtrLevels, pv \in PivotLevels}

\* truthiness of result.get(key): neither None nor 0.0
Has(result, key) == Get(result, key, Null) \notin {Null, 0}

\* round(float(reward / risk), 2) for reward, risk > 0, in hundredths; a
\* quotient that lies exactly half way rounds by its binary representation
Round2(reward, risk) ==
  LET q == (100 * reward) \div risk
      r == (100 * reward) % risk
  IN IF 2 * r < risk THEN {q}
     ELSE IF 2 * r > risk THEN {q + 1}
     ELSE {q, q + 1}

\* one band of the chain: None outside the band or when risk <= 0
Band(level, upper, lower, p) ==
  IF upper > p /\ p > lower
  THEN IF p - lower > 0
       THEN {[ratio |-> v, level |-> level, risk |-> p - lower, reward |-> upper - p] :
               v \in Round2(upper - p, p - lower)}
       ELSE {[ratio |-> Null, level |-> level, risk |-> p - lower, reward |-> upper - p]}
  ELSE {[ratio |-> Null, level |-> level, risk |-> Null, reward |-> Null]}

\* lines 196-238: the values result["risk_reward_ratio"] can take
RiskReward(result, p) ==
  IF Has(result, "resistance_1") /\ Has(result, "support_1")
     /\ result.resistance_1 > p /\ p > result.support_1
  THEN Band(1, result.resistance_1, result.support_1, p)
  ELSE IF Has(result, "bb_upper") /\ Has(result, "bb_lower")
  THEN Band(2, result.bb_upper, result.bb_lower, p)
  ELSE IF Has(result, "ma_50") /\ Has(result, "atr_14")
  THEN Band(3, result.ma_50 + 2 * result.atr_14, result.ma_50 - 2 * result.atr_14, p)
  ELSE {[ratio |-> Null, level |-> 0, risk |-> Null, reward |-> Null]}

PendingRiskReward ==
  {[op |-> "pending", result |-> res, curr_p |-> p] :
     res \in SectionResults, p \in ClosePrices}

RiskRewardSection ==
  /\ rr.op = "pending"
  /\ \E out \in RiskReward(rr.result, rr.curr_p) :
       rr' = [op |-> "call", result |-> rr.result, curr_p |-> rr.curr_p, out |-> out]
  /\ ind' = ind

RiskRewardNext == RiskRewardSection

NextRiskReward ==
  RiskRewardNext /\ UNCHANGED <<marketVars, routeVars, batchVars, providerVars, portfolioVars, serviceVars>>

InitRiskReward ==
  /\ InitMarket /\ ~avKey /\ watch = "AAPL"
  /\ InitRoute
  /\ InitBatch
  /\ pcall = NoCall /\ fcall = NoCall /\ pfRows = {} /\ pfOp = NoCall /\ ind = NoCall
  /\ rr \in PendingRiskReward
  /\ InitServices

SpecRiskReward == InitRiskReward /\ [][NextRiskReward]_vars

\* C22: whenever calculate_all yields a non-null risk_reward_ratio, the
\* value rounded to 2 decimals is strictly greater than 0, and it was
\* computed from a strictly positive risk.
C22_RatioPositive ==
  (rr.op = "call" /\ rr.out.ratio # Null) =>
    /\ rr.out.ratio > 0
    /\ rr.out.risk # Null /\ rr.out.risk > 0

\* the band of a level, when the keys it needs are in result
LevelBands(result) ==
  [i \in 1..3 |->
     CASE i = 1 -> [has |-> Has(result, "resistance_1") /\ Has(result, "support_1"),
                    upper |-> Get(result, "resistance_1", 0),
                    lower |-> Get(result, "support_1", 0)]
       [] i = 2 -> [has |-> Has(result, "bb_upper") /\ Has(result, "bb_lower"),
                    upper |-> Get(result, "bb_upper", 0),
                    lower |-> Get(result, "bb_lower", 0)]
       [] i = 3 -> [has |-> Has(result, "ma_50") /\ Has(result, "atr_14"),
                    upper |-> Get(result, "ma_50", 0) + 2 * Get(result, "atr_14", 0),
                    lower |-> Get(result, "ma_50", 0) - 2 * Get(result, "atr_14", 0)]]

\* C37: the ratio comes from the first of the levels pivot, Bollinger,
\* MA50 +/- 2 ATR whose band strictly contains the current price, and is None
\* only when no available level's band contains it.
C37_FirstContainingLevel ==
  rr.op = "call" =>
    LET bands == LevelBands(rr.result)
        holds == {i \in 1..3 : /\ bands[i].has
                               /\ bands[i].upper > rr.curr_p
                               /\ rr.curr_p > bands[i].lower}
    IN /\ (rr.out.ratio = Null) <=> (holds = {})
       /\ rr.out.ratio # Null => /\ rr.out.level \in holds
                                 /\ \A i \in holds : rr.out.level <= i

\* ===================================================================
\* Further properties of get_real_time_data
\* ===================================================================
SnapPrice(snap) == IF IsMock(snap) THEN snap.currentPrice ELSE snap.current_price

\* C23: when no provider gave data, the snapshot the call returns (the
\* perturbed cached row, or the mock when there is no row) is in the store
\* when the call returns: the committed row of the ticker has that price
\* and that update time.
C23_FallbackIsPersisted ==
  (TheCall /\ ~ret.hit /\ ~Truthy(ret.data) /\ ret.kind # "error") =>
    /\ dbCache[ret.ticker].exists
    /\ dbCache[ret.ticker].current_price = SnapPrice(ret.snap)
    /\ dbCache[ret.ticker].last_updated = ret.at

\* C24: a call that ends with an error after a provider gave data leaves
\* the committed tables as they were before the call; in particular it leaves
\* no Stock row committed without its MarketDataCache row.
C24_ErrorLeavesStoreUntouched ==
  [][(step' = "get" /\ ret'.kind = "error" /\ Truthy(ret'.data)) =>
       /\ UNCHANGED dbVars
       /\ dbStock'[ret'.ticker].exists => dbCache'[ret'.ticker].exists]_vars

\* ===================================================================
\* Concurrent callers over a row that an earlier call stored and that
\* has gone stale: the requests begin at different times
\* ===================================================================
\* the stored row is exactly TTL old, which line 22 no longer takes as fresh
StaleStart == TTL
StaleDelays == {5}

\* the rows a call at time 0 stored from a full yfinance answer
StoredData == YfAttempt(YfGood, "AAPL")
StoredCache == [t \in Tickers |->
                  IF t = "AAPL" THEN MergeCache(NoCache, StoredData, 0) ELSE NoCache]
StoredStock == [t \in Tickers |->
                  IF t = "AAPL" THEN MergeStock(NewStock(StoredData, t), StoredData) ELSE NoStock]

InitStale ==
  /\ InitRoute
  /\ InitBatch
  /\ InitOthers
  /\ now = StaleStart
  /\ avKey = FALSE
  /\ dbStock = StoredStock
  /\ dbCache = StoredCache
  /\ dbNews = InsertAllNews({}, NewsOf(StoredData), "AAPL")
  /\ sess = [p \in Procs |-> FreshSession]
  /\ pc = [p \in Procs |-> "idle"]
  /\ loc = [p \in Procs |-> NoLoc]
  /\ ret = NoRet
  /\ watch \in Tickers
  /\ reqs = 0
  /\ step = "init"

StaleNext ==
  \/ \E p \in Procs : Begin(p, watch, ConcPref)
  \/ \E p \in Procs, avRaw \in ConcAvRaws, yfInp \in ConcYfInputs :
       Fetch(p, FetchData(loc[p].pref, avKey, avRaw, yfInp, watch))
  \/ \E p \in Procs : EnsureStock(p)
  \/ \E p \in Procs : CommitStock(p)
  \/ \E p \in Procs : SelectStock(p)
  \/ \E p \in Procs : Commit(p)
  \/ \E p \in Procs : EndRequest(p)
  \/ \E d \in StaleDelays : Tick(d)

NextStale ==
  StaleNext /\ UNCHANGED <<routeVars, batchVars, providerVars, portfolioVars, indicatorVars, serviceVars>>

SpecStale == InitStale /\ [][NextStale]_vars

\* C25: under every interleaving of concurrent calls, the committed
\* last_updated of a ticker never decreases: a commit never replaces a row
\* by one whose fetch began (line 21) before the fetch that wrote the row.
C25_LastUpdatedNeverDecreases ==
  [][\A t \in Tickers :
       dbCache[t].exists =>
         /\ dbCache'[t].exists
         /\ dbCache'[t].last_updated >= dbCache[t].last_updated]_vars

\* ===================================================================
\* The sources get_real_time_data contacts for a ticker (lines 25-56),
\* next to the source ProviderFactory.get_provider names for it
\* ===================================================================
\* the preferred_source strings of Prefs, spelled out for the factory
PrefChars ==
  [ALPHA_VANTAGE |-> ALPHA_VANTAGE, YFINANCE |-> YFINANCE, AKSHARE |-> AKSHARE]
SourceName(chars) ==
  IF chars = AKSHARE THEN "AKSHARE"
  ELSE IF chars = ALPHA_VANTAGE THEN "ALPHA_VANTAGE" ELSE "YFINANCE"

SourceTickers ==
  {<<"6", "0", "0", "5", "1", "9">>, <<"0", "0", "0", "0", "0", "1">>,
   <<"A", "A", "P", "L">>}

PendingSourceCalls ==
  {[op |-> "pending", ticker |-> t, pref |-> pref, key |-> key, av |-> avRaw, yf |-> yfInp] :
     t \in SourceTickers, pref \in Prefs, key \in BOOLEAN,
     avRaw \in AvRaws, yfInp \in ConcYfInputs}

\* lines 25-56 run for the pending call; factory is what
\* ProviderFactory.get_provider(ticker, preferred_source) would name
FetchSources ==
  /\ fcall.op = "pending"
  /\ fcall' = [op |-> "fetch", ticker |-> fcall.ticker, pref |-> fcall.pref,
               contacts |-> FetchData(fcall.pref, fcall.key, fcall.av, fcall.yf,
                                      fcall.ticker).contacts,
               factory |-> SourceName(ResolveSource(fcall.ticker, PrefChars[fcall.pref]))]
  /\ pcall' = pcall

SourceNext == FetchSources

NextSource ==
  SourceNext /\ UNCHANGED <<marketVars, routeVars, batchVars, portfolioVars, indicatorVars, serviceVars>>

InitSource ==
  /\ InitMarket /\ ~avKey /\ watch = "AAPL"
  /\ InitRoute
  /\ InitBatch
  /\ pcall = NoCall /\ pfRows = {} /\ pfOp = NoCall /\ ind = NoCall /\ rr = NoCall
  /\ InitServices
  /\ fcall \in PendingSourceCalls

SpecSource == InitSource /\ [][NextSource]_vars

\* C26: get_real_time_data fetches from the source the factory names: for a
\* six-digit A-share ticker every provider it contacts is the domestic-market
\* one (AkShare), whatever preferred_source is, and it contacts one.
C26_AShareFetchedFromAkShare ==
  (fcall.op = "fetch" /\ MatchSixDigits(fcall.ticker)) =>
    /\ fcall.factory = "AKSHARE"
    /\ fcall.contacts # <<>>
    /\ \A i \in 1..Len(fcall.contacts) : fcall.contacts[i].src = fcall.factory

\* ===================================================================
\* try_yfinance against the clock (lines 39-47): _fetch_yfinance runs in an
\* executor thread, asyncio.wait_for gives up on it after 15 seconds.
\* Times are in seconds from the start of the try.
\* ===================================================================
SubRequests == <<"info", "history", "news">>
Durations == {[info |-> a, history |-> b, news |-> c] : a, b, c \in {2, 8, 20}}
TimedAnswers == {YfGood, YfAnswer(InfoBare, HistEmpty, <<>>)}

\* when the k-th request of the thread completes
RECURSIVE CompletesAt(_, _)
CompletesAt(durs, k) == IF k = 0 THEN 0 ELSE CompletesAt(durs, k - 1) + durs[SubRequests[k]]

PendingTries ==
  {[op |-> "pending", raw |-> raw, durs |-> d] : raw \in TimedAnswers, d \in Durations}

\* what try_yfinance returns (EmptyDict for None)
TryResult(raw, timedOut) ==
  TryYfinance([run |-> <<raw>>, timeout |-> timedOut], "AAPL").data

\* the thread's return value reaches a future that wait_for has cancelled:
\* it is dropped, the value try_yfinance returned stays
LateResult_Written(out, result) == result

LateResult(out, result) == out

\* line 41: wait_for starts the thread and the timer
StartTry ==
  /\ fcall.op = "pending"
  /\ fcall' = [op |-> "try", raw |-> fcall.raw, durs |-> fcall.durs, clock |-> 0,
               done |-> <<>>, kept |-> <<>>, returned |-> FALSE, timedOut |-> FALSE,
               out |-> EmptyDict, returnedAt |-> Null, delivered |-> FALSE, late |-> FALSE]
  /\ pcall' = pcall

\* the thread completes its next request (lines 196, 221, 294); while the
\* call still waits this happens only before the timer
ThreadProgress ==
  /\ fcall.op = "try" /\ Len(fcall.done) < Len(SubRequests)
  /\ LET k == Len(fcall.done) + 1
         at == CompletesAt(fcall.durs, k)
     IN /\ fcall.returned \/ at < FetchTimeout
        /\ fcall' = [fcall EXCEPT !.done = Append(@, SubRequests[k]),
                                  !.clock = IF at > @ THEN at ELSE @]
  /\ pcall' = pcall

\* line 301: the thread returns its result
ThreadReturns ==
  /\ fcall.op = "try" /\ Len(fcall.done) = Len(SubRequests) /\ ~fcall.delivered
  /\ fcall' = IF fcall.returned
              THEN [fcall EXCEPT !.delivered = TRUE, !.late = TRUE,
                                 !.out = LateResult(@, TryResult(fcall.raw, FALSE))]
              ELSE [fcall EXCEPT !.delivered = TRUE, !.returned = TRUE,
                                 !.kept = fcall.done,
                                 !.out = TryResult(fcall.raw, FALSE),
                                 !.returnedAt = fcall.clock]
  /\ pcall' = pcall

\* lines 43-47: the 15 seconds elapse first; TimeoutError is caught and
\* try_yfinance returns None
TimeoutElapses ==
  /\ fcall.op = "try" /\ ~fcall.returned
  /\ Len(fcall.done) < Len(SubRequests)
  /\ CompletesAt(fcall.durs, Len(fcall.done) + 1) >= FetchTimeout
  /\ fcall' = [fcall EXCEPT !.returned = TRUE, !.timedOut = TRUE,
                            !.kept = <<>>,
                            !.out = TryResult(fcall.raw, TRUE),
                            !.returnedAt = FetchTimeout,
                            !.clock = FetchTimeout]
  /\ pcall' = pcall

TimeoutNext ==
  \/ StartTry
  \/ ThreadProgress
  \/ ThreadReturns
  \/ TimeoutElapses

NextTimeout ==
  TimeoutNext /\ UNCHANGED <<marketVars, routeVars, batchVars, portfolioVars, indicatorVars, serviceVars>>

InitTimeout ==
  /\ InitMarket /\ ~avKey /\ watch = "AAPL"
  /\ InitRoute
  /\ InitBatch
  /\ pcall = NoCall /\ pfRows = {} /\ pfOp = NoCall /\ ind = NoCall /\ rr = NoCall
  /\ InitServices
  /\ fcall \in PendingTries

SpecTimeout == InitTimeout /\ [][NextTimeout]_vars

\* C27: when the 15 seconds elapse, the sub-results the fetch had already
\* completed are kept and used: if the quote request (tick.info) had
\* completed with a price, the try yields data carrying that price.
C27_CompletedPartsSurviveTimeout ==
  (fcall.op = "try" /\ fcall.timedOut /\ fcall.done # <<>> /\ InfoPriced(fcall.raw.info)) =>
    /\ Len(fcall.kept) >= 1
    /\ Priced(fcall.out)

\* C28: once the timeout is declared the call has returned, at second 15
\* whatever the thread still needs, and what the thread delivers afterwards
\* never becomes the data of the call.
C28_StragglerIgnored ==
  (fcall.op = "try" /\ fcall.timedOut) =>
    /\ fcall.returned /\ fcall.returnedAt = FetchTimeout
    /\ fcall.out = EmptyDict

\* the thread delivered a full result after the timeout was declared
C28_Witness ==
  /\ fcall.op = "try" /\ fcall.timedOut /\ fcall.late /\ fcall.delivered
  /\ fcall.clock > FetchTimeout
  /\ Truthy(TryResult(fcall.raw, FALSE))
  /\ fcall.out = EmptyDict

\* ===================================================================
\* The retry loop of _fetch_yfinance and its waits (lines 177-318).
\* Waits are in tenths of a second; attempts are counted from 0 as in the code.
\* ===================================================================
RetryAnswers == {YfGood, YfBlank, YfRaise429, YfRaiseOther, YfHistRaises}

\* what yfinance would answer to one attempt more than the loop can make
RetryRuns ==
  {<<a, b, c, d>> : a \in RetryAnswers, b \in RetryAnswers, c \in RetryAnswers,
                    d \in {YfGood, YfRaise429}}

\* random.uniform(0, 1) of line 307, one draw per attempt
RetryJitters == [0..(MaxRetries - 1) -> {0, 9}]

\* the time.sleep that follows attempt number `attempt` (0: none): line 309
\* after a 429, whatever the attempt; line 315 after another error unless
\* the attempt is the last; none after an attempt that raised nothing
WaitAfter(attempt, answer, jit) ==
  IF answer.exc = "429" THEN 10 * (2 ^ attempt) + jit
  ELSE IF answer.exc \in {"other", "history"} /\ attempt < MaxRetries - 1 THEN 10
  ELSE 0

\* an attempt after which the loop goes on
Unsuccessful(answer) ==
  answer.exc \notin {"none", "news"} \/ ~Truthy(YfAttempt(answer, "AAPL"))

PendingFetches ==
  {[op |-> "pending", run |-> r, jits |-> j] : r \in RetryRuns, j \in RetryJitters}

FetchWithRetries ==
  /\ fcall.op = "pending"
  /\ LET out == FetchYfinance(fcall.run, "AAPL")
     IN fcall' = [op |-> "fetch_yfinance", run |-> fcall.run,
                  raised |-> out.raised, data |-> out.data, attempts |-> out.attempts,
                  waits |-> [a \in 0..(out.attempts - 1) |->
                               WaitAfter(a, fcall.run[a + 1], fcall.jits[a])]]
  /\ pcall' = pcall

RetryNext == FetchWithRetries

NextRetry ==
  RetryNext /\ UNCHANGED <<marketVars, routeVars, batchVars, portfolioVars, indicatorVars, serviceVars>>

InitRetry ==
  /\ InitMarket /\ ~avKey /\ watch = "AAPL"
  /\ InitRoute
  /\ InitBatch
  /\ pcall = NoCall /\ pfRows = {} /\ pfOp = NoCall /\ ind = NoCall /\ rr = NoCall
  /\ InitServices
  /\ fcall \in PendingFetches

SpecRetry == InitRetry /\ [][NextRetry]_vars

\* C29: _fetch_yfinance makes at most 3 attempts, returns the result of the
\* first attempt that yields one and raises after a third unsuccessful
\* attempt; a 429 at attempt k is followed by a wait of 2^k seconds plus a
\* jitter below 1 second, another error by a wait of 1 second, and a wait
\* is made only when another attempt follows it.
C29_BoundedRetriesAndWaits ==
  fcall.op = "fetch_yfinance" =>
    LET n == fcall.attempts IN
    /\ n \in 1..3
    /\ \A a \in 0..(n - 2) : Unsuccessful(fcall.run[a + 1])
    /\ ~fcall.raised => /\ ~Unsuccessful(fcall.run[n])
                        /\ fcall.data = YfAttempt(fcall.run[n], "AAPL")
    /\ fcall.raised => n = 3 /\ Unsuccessful(fcall.run[n])
    /\ \A a \in 0..(n - 1) :
         LET w == fcall.waits[a]
             exc == fcall.run[a + 1].exc
         IN /\ w > 0 => a + 1 < n
            /\ (a + 1 < n /\ exc = "429") => w >= 10 * (2 ^ a) /\ w < 10 * (2 ^ a) + 10
            /\ (a + 1 < n /\ exc \in {"other", "history"}) => w = 10

\* ===================================================================
\* auto_refresh_job (scripts/auto_refresh_market_data.py 22-64): every 5
\* minutes it refreshes the 10 stocks whose cache row is the stalest.
\* Stocks are numbered; last_updated is Null for a stock without cache row.
\* ===================================================================
taskVars == <<holders, phase, tickers, task, sem, calls, results, resp>>

\* the tables the job finds: how many stocks, and their last_updated
StockTables ==
  UNION {{[s \in 1..n |-> s],
          [s \in 1..n |-> Null],
          [s \in 1..n |-> IF s <= 2 THEN Null ELSE 7],
          [s \in 1..n |-> IF s = n THEN 3 ELSE 50]} : n \in {RefreshLimit - 1, MaxStocks}}

Least(a, b) == IF a < b THEN a ELSE b

\* ORDER BY last_updated ASC NULLS FIRST LIMIT 10 (lines 33-37): any 10 rows
\* none of which is fresher than a row left out; rows with equal keys come in
\* an order SQL does not fix
StalestSets(lu) ==
  {S \in SUBSET DOMAIN lu :
     /\ Cardinality(S) = Least(RefreshLimit, Cardinality(DOMAIN lu))
     /\ \A a \in S, b \in (DOMAIN lu) \ S : lu[a] <= lu[b]}

\* the selected tickers in the order of the result: stalest first
RECURSIVE InOrder(_, _)
InOrder(S, lu) ==
  IF S = {} THEN <<>>
  ELSE LET first == CHOOSE a \in S : \A b \in S : lu[a] < lu[b] \/ (lu[a] = lu[b] /\ a <= b)
       IN <<first>> \o InOrder(S \ {first}, lu)

\* line 46: get_real_time_data(ticker, db, force_refresh=True); after a
\* call that raises (lines 51-52) the row is as it was
AfterRefresh(lu, t, out, tnow) == IF out.raised THEN lu ELSE [lu EXCEPT ![t] = tnow]

\* lines 33-40
SelectStalest ==
  /\ job.op = "job" /\ job.phase = "select"
  /\ \E S \in StalestSets(job.lastUpd) :
       job' = [job EXCEPT !.phase = IF S = {} THEN "sleep" ELSE "refresh",
                          !.queue = InOrder(S, job.lastUpd),
                          !.selected = @ \cup S]
  /\ UNCHANGED taskVars

\* lines 44-55, one iteration of the for loop
RefreshStalest ==
  /\ job.op = "job" /\ job.phase = "refresh"
  /\ LET t == Head(job.queue)
     IN job' = [job EXCEPT !.lastUpd = AfterRefresh(@, t, ForcedRefresh(t), now),
                           !.queue = Tail(@),
                           !.failed = IF ForcedRefresh(t).raised THEN @ \cup {t} ELSE @,
                           !.phase = IF Tail(job.queue) = <<>> THEN "sleep" ELSE "refresh"]
  /\ UNCHANGED taskVars

\* line 64: asyncio.sleep(300), then the next round of while True
SleepFiveMinutes ==
  /\ job.op = "job" /\ job.phase = "sleep"
  /\ job' = [job EXCEPT !.phase = "select"]
  /\ UNCHANGED taskVars

JobNext ==
  \/ SelectStalest
  \/ RefreshStalest
  \/ SleepFiveMinutes

NextJob ==
  JobNext /\ UNCHANGED <<marketVars, routeVars, providerVars, portfolioVars, indicatorVars, serviceVars>>

InitJob ==
  /\ now = MaxTime
  /\ avKey = FALSE
  /\ dbStock = [t \in Tickers |-> NoStock]
  /\ dbCache = [t \in Tickers |-> NoCache]
  /\ dbNews = {}
  /\ sess = [p \in Procs |-> FreshSession]
  /\ pc = [p \in Procs |-> "idle"]
  /\ loc = [p \in Procs |-> NoLoc]
  /\ ret = NoRet
  /\ watch = "AAPL"
  /\ reqs = 0
  /\ step = "init"
  /\ InitRoute
  /\ InitOthers
  /\ holders = [t \in BatchTickers |-> 0]
  /\ phase = "idle"
  /\ tickers = {}
  /\ task = [t \in BatchTickers |-> "none"]
  /\ sem = 0
  /\ calls = [t \in BatchTickers |-> <<>>]
  /\ results = [t \in BatchTickers |-> Null]
  /\ resp = EmptyDict
  /\ \E lu \in StockTables :
       job = [op |-> "job", phase |-> "select", lastUpd |-> lu, queue |-> <<>>,
              selected |-> {}, failed |-> {}]

\* the event loop keeps running the job's coroutine
SpecJob == InitJob /\ [][NextJob]_vars /\ WF_vars(NextJob)

\* C30: every stock of the database is eventually selected for refresh,
\* also when refreshes keep failing.
C30_EveryStockEventuallySelected ==
  <>(job.op = "job" /\ job.selected = DOMAIN job.lastUpd)

\* ===================================================================
\* AkShareProvider._run_sync (market_providers/akshare.py 20-68): every call
\* runs run_isolated in a thread of the default executor; the thread marks
\* itself in thread-local storage and clears the proxy variables of
\* os.environ, which all threads of the process share.
\* ===================================================================
UpperProxyVars == <<"HTTP_PROXY", "HTTPS_PROXY", "ALL_PROXY">>

\* line 54, in the order of the for loop
ProxyVars == UpperProxyVars \o <<"http_proxy", "https_proxy", "all_proxy">>

ProxyNames == {ProxyVars[i] : i \in 1..Len(ProxyVars)}

\* an environment variable is absent (Null) or holds the proxy URL
Configured == "url"

\* settings.HTTP_PROXY (config.py 18) is None or a URL; YFinanceProvider's
\* constructor copies a URL to HTTP_PROXY and HTTPS_PROXY (yfinance.py 25-27);
\* the shell may have set all of them
Environments ==
  {[v \in ProxyNames |-> "absent"],
   [v \in ProxyNames |-> IF v \in {"HTTP_PROXY", "HTTPS_PROXY"} THEN Configured ELSE "absent"],
   [v \in ProxyNames |-> IF v \in {"HTTP_PROXY", "HTTPS_PROXY", "ALL_PROXY"} THEN Configured ELSE "absent"],
   [v \in ProxyNames |-> Configured]}

AkThreads == 1..MaxThreads

NoThread == [pc |-> "idle", i |-> 0, old |-> [v \in {} |-> "absent"], bypass |-> FALSE]

\* os.environ.get(var): None for an absent variable
EnvironGet(env, var) == env[var]

\* `if old: os.environ[var] = old` (lines 63-65): None is not restored
Restore(env, var, old) == IF old # "absent" THEN [env EXCEPT ![var] = old] ELSE env

\* lines 55-56
Delete(env, var) == [env EXCEPT ![var] = "absent"]

\* the thread is between line 47 and the end of the finally block
InFlight(th) == th.pc \notin {"idle", "done"}

\* requests.utils.get_environ_proxies as patched (lines 26-32) in a thread
\* whose mark is `bypass`: the proxies requests would use
PatchedProxies(env, bypass) ==
  IF bypass THEN [v \in {} |-> "absent"]
  ELSE [v \in {w \in ProxyNames : env[w] # "absent"} |-> env[v]]

\* line 47: _tls.bypass_proxy = True
MarkThread(k) ==
  /\ proxy.op = "run" /\ proxy.th[k].pc = "idle"
  /\ proxy' = [proxy EXCEPT !.th[k].pc = "save", !.th[k].bypass = TRUE, !.th[k].i = 1]
  /\ UNCHANGED quota

\* lines 50-52: one os.environ.get per step
SaveOld(k) ==
  /\ proxy.op = "run" /\ proxy.th[k].pc = "save"
  /\ LET th == proxy.th[k]
         var == UpperProxyVars[th.i]
     IN proxy' = [proxy EXCEPT
          !.th[k].old = (var :> EnvironGet(proxy.env, var)) @@ th.old,
          !.th[k].i = IF th.i = Len(UpperProxyVars) THEN 1 ELSE th.i + 1,
          !.th[k].pc = IF th.i = Len(UpperProxyVars) THEN "delete" ELSE "save"]
  /\ UNCHANGED quota

\* lines 54-56: one variable of the for loop per step
DeleteVar(k) ==
  /\ proxy.op = "run" /\ proxy.th[k].pc = "delete"
  /\ LET th == proxy.th[k]
     IN proxy' = [proxy EXCEPT
          !.env = Delete(proxy.env, ProxyVars[th.i]),
          !.th[k].i = IF th.i = Len(ProxyVars) THEN 0 ELSE th.i + 1,
          !.th[k].pc = IF th.i = Len(ProxyVars) THEN "call" ELSE "delete"]
  /\ UNCHANGED quota

\* line 59: func(*args, **kwargs), the request to the AkShare source
CallFunc(k) ==
  /\ proxy.op = "run" /\ proxy.th[k].pc = "call"
  /\ proxy' = [proxy EXCEPT
       !.th[k].pc = "restore", !.th[k].i = 1,
       !.used = PatchedProxies(proxy.env, proxy.th[k].bypass)]
  /\ UNCHANGED quota

\* lines 62-65: the finally block, one statement per step
RestoreVar(k) ==
  /\ proxy.op = "run" /\ proxy.th[k].pc = "restore"
  /\ LET th == proxy.th[k]
         var == UpperProxyVars[th.i]
     IN proxy' = [proxy EXCEPT
          !.env = Restore(proxy.env, var, th.old[var]),
          !.th[k].bypass = FALSE,
          !.th[k].i = IF th.i = Len(UpperProxyVars) THEN 0 ELSE th.i + 1,
          !.th[k].pc = IF th.i = Len(UpperProxyVars) THEN "done" ELSE "restore"]
  /\ UNCHANGED quota

\* a thread of another provider sends a request meanwhile: yfinance takes
\* its proxy from os.environ (yfinance.py 21-27), _fetch_alpha_vantage passes
\* settings.HTTP_PROXY itself (market_data.py 327-335)
OtherProviderCall(provider) ==
  /\ proxy.op = "run"
  /\ proxy' = [proxy EXCEPT !.seen =
       [op |-> "request", provider |-> provider,
        during |-> \E k \in AkThreads : InFlight(proxy.th[k]),
        http |-> IF provider = "yfinance"
                 THEN IF "HTTP_PROXY" \in DOMAIN PatchedProxies(proxy.env, FALSE)
                      THEN proxy.env["HTTP_PROXY"] ELSE "absent"
                 ELSE proxy.start["HTTP_PROXY"]]]
  /\ UNCHANGED quota

ProxyNext ==
  \/ \E k \in AkThreads : MarkThread(k)
  \/ \E k \in AkThreads : SaveOld(k)
  \/ \E k \in AkThreads : DeleteVar(k)
  \/ \E k \in AkThreads : CallFunc(k)
  \/ \E k \in AkThreads : RestoreVar(k)
  \/ \E provider \in {"yfinance", "alpha_vantage"} : OtherProviderCall(provider)

NextProxy ==
  ProxyNext /\ UNCHANGED <<marketVars, routeVars, batchVars, providerVars, portfolioVars, indicatorVars>>

InitProxy ==
  /\ InitMarket /\ ~avKey /\ watch = "AAPL"
  /\ InitRoute
  /\ InitBatch
  /\ pcall = NoCall /\ fcall = NoCall /\ pfRows = {} /\ pfOp = NoCall /\ ind = NoCall
  /\ rr = NoCall
  /\ quota = NoCall
  /\ \E env \in Environments :
       proxy = [op |-> "run", start |-> env, env |-> env,
                th |-> [k \in AkThreads |-> NoThread],
                used |-> [v \in {} |-> "absent"],
                seen |-> NoCall]

SpecProxy == InitProxy /\ [][NextProxy]_vars

\* C31: when all concurrent _run_sync calls have completed, HTTP_PROXY,
\* HTTPS_PROXY and ALL_PROXY hold the values they had before the calls.
C31_ProxyVariablesRestored ==
  (proxy.op = "run" /\ \A k \in AkThreads : proxy.th[k].pc = "done")
    => \A i \in 1..Len(UpperProxyVars) :
         proxy.env[UpperProxyVars[i]] = proxy.start[UpperProxyVars[i]]

\* C32: a request of another provider made while an AkShare call is in
\* flight still goes through the configured HTTP proxy.
C32_OtherProvidersKeepProxy ==
  (proxy.op = "run" /\ proxy.seen.op = "request" /\ proxy.seen.during)
    => proxy.seen.http = proxy.start["HTTP_PROXY"]

\* ===================================================================
\* analyze_stock (api/v1/endpoints/analysis.py 48-332) for one user and one
\* UTC day: the free-tier check at the start, the market data call, and the
\* AnalysisReport row committed at the end. The awaits between them let
\* concurrent requests interleave.
\* ===================================================================
Analyses == 1..MaxRequests

NoAnalysis == [pc |-> "idle", count |-> Null, status |-> 0, created |-> FALSE]

\* line 82: `if count >= 3` raises HTTPException(429)
LimitReached(count) == count >= DailyLimit

\* line 95: get_real_time_data(ticker, db, force_refresh=force); the service
\* (market_data.py 15) has no such parameter, so the call raises TypeError
FetchForAnalysis_Returns(force) == [raised |-> FALSE, err |-> ""]

FetchForAnalysis(force) == [raised |-> TRUE, err |-> "TypeError"]

\* lines 63-86: the count of today's reports, and the rejection
CheckLimit(r) ==
  /\ quota.op = "analysis" /\ quota.req[r].pc = "idle"
  /\ quota' = [quota EXCEPT !.req[r] =
       IF quota.hasKey
       THEN [@ EXCEPT !.pc = "fetch"]
       ELSE IF LimitReached(quota.reports)
            THEN [@ EXCEPT !.pc = "done", !.count = quota.reports, !.status = 429]
            ELSE [@ EXCEPT !.pc = "fetch", !.count = quota.reports]]
  /\ UNCHANGED proxy

\* lines 88-332: the market data call and, if it returns, the analysis and
\* db.add(new_report); db.commit(). An exception of line 95 is not caught
\* and ends the request with status 500
FetchAndPersist(r) ==
  /\ quota.op = "analysis" /\ quota.req[r].pc = "fetch"
  /\ \E force \in BOOLEAN :
       LET out == FetchForAnalysis(force)
       IN quota' = IF out.raised
                   THEN [quota EXCEPT !.req[r].pc = "done", !.req[r].status = 500]
                   ELSE [quota EXCEPT !.req[r].pc = "done", !.req[r].status = 200,
                                      !.req[r].created = TRUE,
                                      !.reports = @ + 1]
  /\ UNCHANGED proxy

AnalysisNext ==
  \/ \E r \in Analyses : CheckLimit(r)
  \/ \E r \in Analyses : FetchAndPersist(r)

NextAnalysis ==
  AnalysisNext /\ UNCHANGED <<marketVars, routeVars, batchVars, providerVars, portfolioVars, indicatorVars>>

\* the user has api_key_gemini or not; today's reports are within the limit
InitAnalysis ==
  /\ InitMarket /\ ~avKey /\ watch = "AAPL"
  /\ InitRoute
  /\ InitBatch
  /\ pcall = NoCall /\ fcall = NoCall /\ pfRows = {} /\ pfOp = NoCall /\ ind = NoCall
  /\ rr = NoCall
  /\ proxy = NoCall
  /\ \E k \in BOOLEAN, n \in 0..DailyLimit :
       quota = [op |-> "analysis", hasKey |-> k, reports |-> n,
                req |-> [r \in Analyses |-> NoAnalysis]]

SpecAnalysis == InitAnalysis /\ [][NextAnalysis]_vars

CallSites ==
  {"try_yfinance", "_fetch_alpha_vantage", "TavilyProvider.get_news",
   "AlphaVantageProvider.get_quote", "AlphaVantageProvider.get_fundamental_data",
   "YFinanceProvider._run_sync", "AkShareProvider._run_sync"}

\* the timeout the call site passes, Null where it passes none:
\* asyncio.wait_for(..., timeout=15.0) (market_data.py 41-44),
\* requests.get(..., timeout=5) (market_data.py 334-335),
\* httpx.AsyncClient(timeout=10.0) (tavily.py 27),
\* requests.get(url) (alpha_vantage.py 21, 42),
\* run_in_executor alone (yfinance.py 33-34, akshare.py 67-68)
TimeoutOf(site) ==
  CASE site = "try_yfinance" -> FetchTimeout
    [] site = "_fetch_alpha_vantage" -> AvRequestTimeout
    [] site = "TavilyProvider.get_news" -> TavilyTimeout
    [] OTHER -> Null

\* seconds until the remote source answers; Null: it never does
AnswerDelays == {2, 8, 20, Null}

Due(at, waited) == at # Null /\ waited >= at

\* a second passes while the caller waits
WaitOneSecond ==
  /\ fcall.op = "wait" /\ ~fcall.returned
  /\ fcall.waited < MaxWait
  /\ ~Due(fcall.delay, fcall.waited) /\ ~Due(TimeoutOf(fcall.site), fcall.waited)
  /\ fcall' = [fcall EXCEPT !.waited = @ + 1]
  /\ pcall' = pcall

\* the remote source answers and the call returns its result
AnswerArrives ==
  /\ fcall.op = "wait" /\ ~fcall.returned
  /\ Due(fcall.delay, fcall.waited)
  /\ fcall' = [fcall EXCEPT !.returned = TRUE, !.how = "answer"]
  /\ pcall' = pcall

\* the timeout of the call site ends the wait: the exception is caught by
\* the caller's try and the call returns without data
TimeoutFires ==
  /\ fcall.op = "wait" /\ ~fcall.returned
  /\ Due(TimeoutOf(fcall.site), fcall.waited)
  /\ fcall' = [fcall EXCEPT !.returned = TRUE, !.how = "timeout"]
  /\ pcall' = pcall

WaitNext ==
  \/ WaitOneSecond
  \/ AnswerArrives
  \/ TimeoutFires

NextWait ==
  WaitNext /\ UNCHANGED <<marketVars, routeVars, batchVars, portfolioVars, indicatorVars, serviceVars>>

InitWait ==
  /\ InitMarket /\ ~avKey /\ watch = "AAPL"
  /\ InitRoute
  /\ InitBatch
  /\ pcall = NoCall /\ pfRows = {} /\ pfOp = NoCall /\ ind = NoCall /\ rr = NoCall
  /\ InitServices
  /\ \E site \in CallSites, d \in AnswerDelays :
       fcall = [op |-> "wait", site |-> site, delay |-> d, waited |-> 0,
                returned |-> FALSE, how |-> "none"]

\* time passes and a due answer or timeout is delivered
SpecWait == InitWait /\ [][NextWait]_vars /\ WF_vars(NextWait)

\* C35: every external call carries an explicit timeout, so each call
\* eventually returns even if the remote source never answers.
C35_EveryCallReturns == <>(fcall.op = "wait" /\ fcall.returned)

\* ===================================================================
\* calculate_all, section 1: the MACD cross (indicators.py 73-89). The last
\* two values of the MACD line and of its signal line, in units of 0.01.
\* ===================================================================
LineValues == {0, 1, 2}

\* line 78
MacdCross(macd, signal) == IF macd >= signal THEN "GOLDEN" ELSE "DEATH"

\* lines 85-86
IsNewCross(prev_macd, prev_signal, curr_macd, curr_signal) ==
  \/ (prev_macd < prev_signal /\ curr_macd >= curr_signal)
  \/ (prev_macd > prev_signal /\ curr_macd <= curr_signal)

PendingCrosses ==
  {[op |-> "pending", fn |-> "macd_cross",
    prev_macd |-> pm, prev_signal |-> ps, curr_macd |-> cm, curr_signal |-> cs] :
     pm \in LineValues, ps \in LineValues, cm \in LineValues, cs \in LineValues}

\* lines 74-89: result["macd_cross"] and result["macd_is_new_cross"]
CrossSection ==
  /\ ind.op = "pending" /\ ind.fn = "macd_cross"
  /\ ind' = [ind EXCEPT !.op = "call"] @@
            [macd_cross |-> MacdCross(ind.curr_macd, ind.curr_signal),
             macd_is_new_cross |-> IsNewCross(ind.prev_macd, ind.prev_signal,
                                              ind.curr_macd, ind.curr_signal)]
  /\ rr' = rr

CrossNext == CrossSection

NextCross ==
  CrossNext /\ UNCHANGED <<marketVars, routeVars, batchVars, providerVars, portfolioVars, serviceVars>>

InitCross ==
  /\ InitMarket /\ ~avKey /\ watch = "AAPL"
  /\ InitRoute
  /\ InitBatch
  /\ pcall = NoCall /\ fcall = NoCall /\ pfRows = {} /\ pfOp = NoCall /\ rr = NoCall
  /\ InitServices
  /\ ind \in PendingCrosses

SpecCross == InitCross /\ [][NextCross]_vars

\* C38: macd_is_new_cross is true exactly when the cross state of the last
\* bar (GOLDEN if macd >= signal, else DEATH) differs from the cross state
\* of the bar before, also when the two lines are equal on either bar.
C38_NewCrossIffStateChanged ==
  (ind.op = "call" /\ ind.fn = "macd_cross") =>
    (ind.macd_is_new_cross <=>
       (MacdCross(ind.prev_macd, ind.prev_signal) # ind.macd_cross))

====
